---- MODULE Spec2Model ----
(***************************************************************************)
(* The AEO analysis engine: the ten category analyzers, the orchestrator   *)
(* AEOAnalyzer.analyzeWebpage and the weighted overall score.              *)
(*                                                                         *)
(* Text is abstracted to the features the code reads from it (a length, a  *)
(* word count, the outcome of a substring or regex test); numbers, lists   *)
(* and the control flow are kept as in the source.                         *)
(***************************************************************************)
EXTENDS Integers, Sequences, FiniteSets, TLC

(***************************************************************************)
(* Bounds of the model.                                                    *)
(***************************************************************************)
\* longest options.categories list that is enumerated
MaxCategories == 2
\* most structured-data blocks in a document
MaxSchemas == 2
\* most records in a collection of the file-backed server
MaxRecords == 2

(***************************************************************************)
(* Generic helpers.                                                        *)
(***************************************************************************)
Min(a, b) == IF a <= b THEN a ELSE b

Max(a, b) == IF a >= b THEN a ELSE b

Range(s) == {s[i] : i \in 1..Len(s)}

RECURSIVE SumSeq(_)
SumSeq(s) == IF s = <<>> THEN 0 ELSE Head(s) + SumSeq(Tail(s))

SeqsUpTo(S, n) == UNION {[1..k -> S] : k \in 0..n}

\* Array.prototype.filter
Filter(s, Test(_)) == SelectSeq(s, Test)

(***************************************************************************)
(* JavaScript numbers that are not integers: the structured-data score     *)
(* divides by the number of valid blocks.  A number is kept as a reduced   *)
(* fraction n/d.                                                           *)
(***************************************************************************)
RECURSIVE GCD(_, _)
GCD(a, b) == IF b = 0 THEN a ELSE GCD(b, a % b)

Abs(x) == IF x < 0 THEN -x ELSE x

Frac(n, d) ==
    LET g == GCD(Abs(n), d) IN [n |-> n \div g, d |-> d \div g]

Num(k) == [n |-> k, d |-> 1]

NumAdd(a, b) == Frac(a.n * b.d + b.n * a.d, a.d * b.d)

NumTimes(a, k) == Frac(a.n * k, a.d)

NumLeq(a, b) == a.n * b.d <= b.n * a.d

NumMin(a, b) == IF NumLeq(a, b) THEN a ELSE b

IsInteger(a) == a.d = 1

\* Math.round(a / k) for an integer k > 0: the nearest integer, halves up
MathRoundDiv(a, k) == (2 * a.n + a.d * k) \div (2 * a.d * k)

(***************************************************************************)
(* shared/src/types: the categories and the severities.                    *)
(***************************************************************************)
\* Object.values(AEOCategory), in declaration order
AEOCategory ==
    << "faq_schema", "schema_markup", "content_structure", "featured_snippets",
       "entity_optimization", "meta_tags", "semantic_html", "voice_search",
       "knowledge_graph", "technical_seo" >>

Categories == Range(AEOCategory)

Severity == {"critical", "high", "medium", "low"}

(***************************************************************************)
(* shared/src/utils/constants.ts: the weighting table.                     *)
(***************************************************************************)
\* AEO_CATEGORY_CONFIG[c].weight, keyed by the AEOCategory value
AEO_CATEGORY_CONFIG ==
    [c \in Categories |->
        CASE c = "faq_schema" -> 15
          [] c = "schema_markup" -> 20
          [] c = "content_structure" -> 15
          [] c = "featured_snippets" -> 12
          [] c = "entity_optimization" -> 10
          [] c = "meta_tags" -> 8
          [] c = "semantic_html" -> 8
          [] c = "voice_search" -> 5
          [] c = "knowledge_graph" -> 4
          [] c = "technical_seo" -> 3]

\* Object.fromEntries(Object.entries(AEO_CATEGORY_CONFIG).map(...)): same keys
DEFAULT_CATEGORY_WEIGHTS == [c \in DOMAIN AEO_CATEGORY_CONFIG |-> AEO_CATEGORY_CONFIG[c]]

(***************************************************************************)
(* AEOAnalyzer.ts: the private helpers of the orchestrator.                *)
(***************************************************************************)
\* the keys of CategoryScores, in the order fillMissingScores writes them
CategoryScoreKeys ==
    << "faqSchema", "schemaMarkup", "contentStructure", "featuredSnippets",
       "entityOptimization", "metaTags", "semanticHtml", "voiceSearch",
       "knowledgeGraph", "technicalSeo" >>

\* mapping[category]; only reached for a category that has an analyzer
getCategoryScoreKey(category) ==
    CASE category = "faq_schema" -> "faqSchema"
      [] category = "schema_markup" -> "schemaMarkup"
      [] category = "content_structure" -> "contentStructure"
      [] category = "featured_snippets" -> "featuredSnippets"
      [] category = "entity_optimization" -> "entityOptimization"
      [] category = "meta_tags" -> "metaTags"
      [] category = "semantic_html" -> "semanticHtml"
      [] category = "voice_search" -> "voiceSearch"
      [] category = "knowledge_graph" -> "knowledgeGraph"
      [] category = "technical_seo" -> "technicalSeo"
      [] OTHER -> "undefined"

\* a variant that returns the partial map as it is
fillMissingScores_Partial(scores) == scores

\* scores.key ?? 0, for each of the ten keys
fillMissingScores(scores) ==
    [k \in Range(CategoryScoreKeys) |->
        IF k \in DOMAIN scores THEN scores[k] ELSE Num(0)]

getSeverityPriority(severity) ==
    CASE severity = "critical" -> 1
      [] severity = "high" -> 2
      [] severity = "medium" -> 3
      [] severity = "low" -> 4

(***************************************************************************)
(* shared/src/utils/helpers.ts                                             *)
(***************************************************************************)
\* DEFAULT_CATEGORY_WEIGHTS[category] || 1, looked up with a key of categoryScores
WeightOfEntry(key) ==
    IF key \in DOMAIN DEFAULT_CATEGORY_WEIGHTS /\ DEFAULT_CATEGORY_WEIGHTS[key] # 0
    THEN DEFAULT_CATEGORY_WEIGHTS[key]
    ELSE 1

\* the reduce over Object.entries(categoryScores): only the keys that are present
RECURSIVE WeightedSum(_, _)
WeightedSum(categoryScores, keys) ==
    IF keys = <<>> THEN Num(0)
    ELSE IF Head(keys) \notin DOMAIN categoryScores
         THEN WeightedSum(categoryScores, Tail(keys))
         ELSE NumAdd(NumTimes(categoryScores[Head(keys)], WeightOfEntry(Head(keys))),
                     WeightedSum(categoryScores, Tail(keys)))

TotalWeight == SumSeq([i \in 1..Len(AEOCategory) |-> DEFAULT_CATEGORY_WEIGHTS[AEOCategory[i]]])

\* a variant that averages over the categories that scored above 0
calculateOverallScore_OverScored(categoryScores) ==
    MathRoundDiv(WeightedSum(categoryScores, CategoryScoreKeys),
                 Max(1, Cardinality({k \in DOMAIN categoryScores :
                                        categoryScores[k] # Num(0)})))

calculateOverallScore(categoryScores) ==
    MathRoundDiv(WeightedSum(categoryScores, CategoryScoreKeys), TotalWeight)

getSeverityFromScore(score) ==
    IF NumLeq(Num(80), score) THEN "low"
    ELSE IF NumLeq(Num(60), score) THEN "medium"
    ELSE IF NumLeq(Num(40), score) THEN "high"
    ELSE "critical"

(***************************************************************************)
(* Array.prototype.sort with a numeric comparator: a stable sort (ES2019). *)
(***************************************************************************)
\* a variant that puts an element before the elements of equal key
InsertPosition_BeforeEqual(sortedKeys, k) ==
    Cardinality({j \in 1..Len(sortedKeys) : sortedKeys[j] < k})

\* where an element with key k goes among already sorted keys: after every
\* key that is not greater, so equal keys keep their order
InsertPosition(sortedKeys, k) ==
    Cardinality({j \in 1..Len(sortedKeys) : sortedKeys[j] <= k})

\* the indices 1..i-1 of keys are in order in sortedIdx; insert i..Len(keys)
RECURSIVE SortIndices(_, _, _)
SortIndices(sortedIdx, i, keys) ==
    IF i > Len(keys) THEN sortedIdx
    ELSE LET n == InsertPosition([j \in 1..Len(sortedIdx) |-> keys[sortedIdx[j]]], keys[i])
         IN SortIndices(SubSeq(sortedIdx, 1, n) \o <<i>>
                            \o SubSeq(sortedIdx, n + 1, Len(sortedIdx)),
                        i + 1, keys)

\* s.sort((a, b) => keys[a] - keys[b])
SortByKeys(s, keys) ==
    LET idx == SortIndices(<<>>, 1, keys)
    IN [j \in 1..Len(s) |-> s[idx[j]]]

\* issues.sort((a, b) => getSeverityPriority(a.severity) - getSeverityPriority(b.severity))
SortIssues(issues) ==
    SortByKeys(issues, [j \in 1..Len(issues) |-> getSeverityPriority(issues[j].severity)])

\* a variant that leaves the recommendations in collection order
SortRecommendations_Unsorted(recs) == recs

\* recommendations.sort((a, b) => a.priority - b.priority)
SortRecommendations(recs) ==
    SortByKeys(recs, [j \in 1..Len(recs) |-> recs[j].priority])

(***************************************************************************)
(* The records an analyzer returns.                                        *)
(***************************************************************************)
Issue(severity, title) == [severity |-> severity, title |-> title]

Recommendation(priority, title) == [priority |-> priority, title |-> title]

AnalyzerResult(score, issues, recommendations) ==
    [score |-> score, issues |-> issues, recommendations |-> recommendations]

\* cond ? <<x>> : <<>> : a conditional push
When(cond, x) == IF cond THEN <<x>> ELSE <<>>

(***************************************************************************)
(* analyzers/BaseAnalyzer.ts                                               *)
(***************************************************************************)
\* factors: a sequence of [weight, score]
calculateScore(factors) ==
    LET totalWeight == SumSeq([i \in 1..Len(factors) |-> factors[i].weight])
        weightedSum == SumSeq([i \in 1..Len(factors) |-> factors[i].score * factors[i].weight])
    IN IF totalWeight > 0 THEN MathRoundDiv(Num(weightedSum), totalWeight) ELSE 0

HeadingJumps(headings) ==
    {i \in 2..Len(headings) : headings[i].level > headings[i - 1].level + 1}

\* a variant without the check for a missing H1
validateHeadingStructure_AllowsMissingH1(headings) ==
    LET h1Count == Cardinality({i \in 1..Len(headings) : headings[i].level = 1})
    IN IF Len(headings) = 0 THEN FALSE
       ELSE /\ h1Count <= 1
            /\ HeadingJumps(headings) = {}

validateHeadingStructure(headings) ==
    LET h1Count == Cardinality({i \in 1..Len(headings) : headings[i].level = 1})
    IN IF Len(headings) = 0 THEN FALSE
       ELSE /\ h1Count = 1
            /\ HeadingJumps(headings) = {}

(***************************************************************************)
(* The six single-signal analyzers.                                        *)
(***************************************************************************)
SemanticHTMLAnalyzer(data, quick) ==
    LET hasSemanticStructure == Len(data.headings) > 0 /\ data.content.length > 300
    IN AnalyzerResult(
         Num(IF hasSemanticStructure THEN 60 ELSE 40),
         When(~hasSemanticStructure, Issue("medium", "Poor Semantic HTML Structure")),
         <<Recommendation(2, "Improve Semantic HTML")>>)

\* a variant whose quick mode skips the content check and returns the low score
VoiceSearchAnalyzer_QuickGuess(data, quick) ==
    LET hasConversationalContent == ~quick /\ data.content.answersCommonQuestions
    IN AnalyzerResult(
         Num(IF hasConversationalContent THEN 70 ELSE 30),
         When(~hasConversationalContent, Issue("medium", "Not Optimized for Voice Search")),
         <<Recommendation(3, "Optimize for Voice Search")>>)

VoiceSearchAnalyzer(data, quick) ==
    LET hasConversationalContent == data.content.answersCommonQuestions
    IN AnalyzerResult(
         Num(IF hasConversationalContent THEN 70 ELSE 30),
         When(~hasConversationalContent, Issue("medium", "Not Optimized for Voice Search")),
         <<Recommendation(3, "Optimize for Voice Search")>>)

FeaturedSnippetsAnalyzer(data, quick) ==
    LET snippetCandidates == data.content.snippetCandidates
    IN AnalyzerResult(
         Num(IF snippetCandidates > 0 THEN 60 ELSE 20),
         When(snippetCandidates = 0, Issue("medium", "No Featured Snippet Optimization")),
         <<Recommendation(1, "Optimize for Featured Snippets")>>)

EntityOptimizationAnalyzer(data, quick) ==
    LET hasEntityMentions == data.content.entityMentions
    IN AnalyzerResult(
         Num(IF hasEntityMentions THEN 50 ELSE 30),
         When(~hasEntityMentions, Issue("medium", "Limited Entity Coverage")),
         <<Recommendation(2, "Enhance Entity Coverage")>>)

KnowledgeGraphAnalyzer(data, quick) ==
    LET hasAuthoritySignals == \E i \in 1..Len(data.links) : data.links[i].authority
    IN AnalyzerResult(
         Num(IF hasAuthoritySignals THEN 50 ELSE 30),
         When(~hasAuthoritySignals, Issue("low", "Limited Knowledge Graph Signals")),
         <<Recommendation(4, "Enhance Knowledge Graph Signals")>>)

\* a variant whose penalties add up to more than the base score
TechnicalSEOAnalyzer_HeavyPenalties(data, quick) ==
    LET slow == data.performance.loadTime > 3000
        large == data.performance.pageSize > 3000000
        poorLcp == data.performance.lcp # 0 /\ data.performance.lcp > 2500
        score == 60 - (IF slow THEN 40 ELSE 0) - (IF large THEN 20 ELSE 0)
                    - (IF poorLcp THEN 15 ELSE 0)
    IN AnalyzerResult(
         Num(score),
         When(slow, Issue("high", "Slow Page Load Time"))
            \o When(large, Issue("medium", "Large Page Size"))
            \o When(poorLcp, Issue("medium", "Poor Largest Contentful Paint")),
         <<Recommendation(2, "Optimize Technical Performance")>>)

TechnicalSEOAnalyzer(data, quick) ==
    LET slow == data.performance.loadTime > 3000
        large == data.performance.pageSize > 3000000
        \* coreWebVitals && cwv.lcp && cwv.lcp > 2500; lcp 0 stands for an absent one
        poorLcp == data.performance.lcp # 0 /\ data.performance.lcp > 2500
        score == 60 - (IF slow THEN 20 ELSE 0) - (IF large THEN 10 ELSE 0)
                    - (IF poorLcp THEN 15 ELSE 0)
    IN AnalyzerResult(
         Num(score),
         When(slow, Issue("high", "Slow Page Load Time"))
            \o When(large, Issue("medium", "Large Page Size"))
            \o When(poorLcp, Issue("medium", "Poor Largest Contentful Paint")),
         <<Recommendation(2, "Optimize Technical Performance")>>)

(***************************************************************************)
(* analyzers/ContentStructureAnalyzer.ts                                   *)
(***************************************************************************)
ContentStructureAnalyzer(data, quick) ==
    LET headingsValid == validateHeadingStructure(data.headings)
        headingScore == IF headingsValid THEN 80 ELSE 30
        readable == data.content.readability >= 60
        readabilityScore == IF readable THEN 80 ELSE 40
        longEnough == data.content.words >= 300
        structureScore == IF longEnough THEN 70 ELSE 20
    IN AnalyzerResult(
         Num(calculateScore(<< [weight |-> 40, score |-> headingScore],
                               [weight |-> 30, score |-> readabilityScore],
                               [weight |-> 30, score |-> structureScore] >>)),
         When(~headingsValid, Issue("medium", "Poor Heading Structure"))
            \o When(~readable, Issue("medium", "Poor Content Readability"))
            \o When(~longEnough, Issue("high", "Insufficient Content Length")),
         When(~quick, Recommendation(1, "Optimize Content Structure")))

(***************************************************************************)
(* analyzers/MetaTagsAnalyzer.ts                                           *)
(***************************************************************************)
IMPORTANT_META_TAGS == {"description", "keywords", "author", "viewport", "robots"}

IMPORTANT_OG_TAGS == {"og:title", "og:description", "og:image", "og:url", "og:type"}

IMPORTANT_TWITTER_TAGS ==
    {"twitter:card", "twitter:title", "twitter:description", "twitter:image"}

\* the value a Map holds for key after set() was called for every tag in order
LastWith(tags, field, key) ==
    LET hits == {i \in 1..Len(tags) : tags[i][field] = key}
    IN tags[CHOOSE i \in hits : \A j \in hits : j <= i]

\* a variant whose lower edge is exclusive
analyzeTitleTag_ExclusiveEdge(title) ==
    IF title.length = 0 \/ title.blank
    THEN [score |-> 0, issues |-> <<Issue("critical", "Missing Title Tag")>>]
    ELSE LET short == title.length <= 30
             long == ~short /\ title.length > 60
             score == 50 + (IF short THEN -15 ELSE IF long THEN -10 ELSE 20)
                         - (IF title.duplicateWords THEN 5 ELSE 0)
                         + (IF title.brandName THEN 10 ELSE 0)
         IN [score |-> Max(0, score),
             issues |-> When(short, Issue("medium", "Title Too Short"))
                          \o When(long, Issue("medium", "Title Too Long"))
                          \o When(title.duplicateWords, Issue("low", "Duplicate Words in Title"))]

analyzeTitleTag(title) ==
    IF title.length = 0 \/ title.blank
    THEN [score |-> 0, issues |-> <<Issue("critical", "Missing Title Tag")>>]
    ELSE LET short == title.length < 30
             long == ~short /\ title.length > 60
             score == 50 + (IF short THEN -15 ELSE IF long THEN -10 ELSE 20)
                         - (IF title.duplicateWords THEN 5 ELSE 0)
                         + (IF title.brandName THEN 10 ELSE 0)
         IN [score |-> Max(0, score),
             issues |-> When(short, Issue("medium", "Title Too Short"))
                          \o When(long, Issue("medium", "Title Too Long"))
                          \o When(title.duplicateWords, Issue("low", "Duplicate Words in Title"))]

analyzeMetaDescription(description) ==
    IF description.length = 0 \/ description.blank
    THEN [score |-> 0, issues |-> <<Issue("high", "Missing Meta Description")>>]
    ELSE LET short == description.length < 120
             long == ~short /\ description.length > 160
             score == 50 + (IF short THEN -15 ELSE IF long THEN -10 ELSE 25)
                         + (IF description.callToAction THEN 15 ELSE 0)
                         - (IF description.generic THEN 10 ELSE 0)
         IN [score |-> Max(0, score),
             issues |-> When(short, Issue("medium", "Meta Description Too Short"))
                          \o When(long, Issue("medium", "Meta Description Too Long"))
                          \o When(~description.callToAction,
                                  Issue("low", "No Call-to-Action in Description"))
                          \o When(description.generic, Issue("low", "Generic Meta Description"))]

analyzeMetaTags(metaTags) ==
    LET names == {metaTags[i].name : i \in 1..Len(metaTags)} \ {""}
        score == 15 * Cardinality(names \cap IMPORTANT_META_TAGS)
        hasRobots == "robots" \in names
        restrictive == hasRobots /\ LastWith(metaTags, "name", "robots").restrictive
    IN [score |-> Min(100, score),
        issues |-> When(restrictive, Issue("medium", "Restrictive Robots Meta Tag"))
                     \o When(~hasRobots, Issue("low", "Missing Robots Meta Tag"))
                     \o When("viewport" \notin names, Issue("medium", "Missing Viewport Meta Tag"))]

analyzeOpenGraphTags(ogTags) ==
    LET props == {ogTags[i].property : i \in 1..Len(ogTags)}
        badImage == "og:image" \in props /\ ~LastWith(ogTags, "property", "og:image").validUrl
        score == 20 * Cardinality(props \cap IMPORTANT_OG_TAGS) - (IF badImage THEN 10 ELSE 0)
    IN IF Len(ogTags) = 0
       THEN [score |-> 0, issues |-> <<Issue("medium", "Missing Open Graph Tags")>>]
       ELSE [score |-> Min(100, score),
             issues |-> When(badImage, Issue("low", "Invalid OG Image URL"))]

\* the names that start with 'twitter:'
TwitterNames(metaTags) ==
    {metaTags[i].name : i \in 1..Len(metaTags)}
        \cap (IMPORTANT_TWITTER_TAGS \cup {"twitter:site"})

analyzeTwitterTags(metaTags) ==
    LET twitter == TwitterNames(metaTags)
    IN IF twitter = {}
       THEN [score |-> 0, issues |-> <<Issue("low", "Missing Twitter Card Tags")>>]
       ELSE [score |-> Min(100, 25 * Cardinality(twitter \cap IMPORTANT_TWITTER_TAGS)),
             issues |-> <<>>]

addRecommendations(data) ==
    When(data.title.length = 0 \/ data.title.length < 50 \/ data.title.length > 60,
         Recommendation(1, "Optimize Title Tag"))
    \o When(data.metaDescription.length = 0 \/ data.metaDescription.length < 150
                \/ data.metaDescription.length > 160,
            Recommendation(1, "Optimize Meta Description"))
    \o When(Len(data.openGraphTags) < 4, Recommendation(2, "Add Complete Open Graph Tags"))
    \o When(TwitterNames(data.metaTags) = {}, Recommendation(3, "Add Twitter Card Tags"))

MetaTagsAnalyzer(data, quick) ==
    LET title == analyzeTitleTag(data.title)
        description == analyzeMetaDescription(data.metaDescription)
        meta == analyzeMetaTags(data.metaTags)
        og == analyzeOpenGraphTags(data.openGraphTags)
        twitter == analyzeTwitterTags(data.metaTags)
        score == calculateScore(<< [weight |-> 30, score |-> title.score],
                                   [weight |-> 25, score |-> description.score],
                                   [weight |-> 20, score |-> meta.score],
                                   [weight |-> 15, score |-> og.score],
                                   [weight |-> 10, score |-> twitter.score] >>)
    IN AnalyzerResult(
         Num(Min(100, score)),
         title.issues \o description.issues \o meta.issues \o og.issues \o twitter.issues,
         IF quick THEN <<>> ELSE addRecommendations(data))

(***************************************************************************)
(* analyzers/FAQSchemaAnalyzer.ts                                          *)
(***************************************************************************)
isFAQSchema(schema) == schema.type = "FAQPage" \/ schema.atType = "FAQPage"

\* mainEntity: a sequence of [goodQuestion, goodAnswer], the outcomes of
\* isGoodQuestion(entry.name) and isGoodAnswer(entry.acceptedAnswer?.text)
evaluateFAQQuality(faqEntries) ==
    LET good == SumSeq([i \in 1..Len(faqEntries) |->
                          (IF faqEntries[i].goodQuestion THEN 3 ELSE 0)
                        + (IF faqEntries[i].goodAnswer THEN 2 ELSE 0)])
    IN Min(100, 70 + good)

\* findFAQIndicators(data).length
findFAQIndicators(data) ==
    Cardinality({i \in 1..Len(data.headings) : data.headings[i].faqLike})
        + data.content.questionMatches

FAQSchemaAnalyzer(data, quick) ==
    LET faqSchemas == Filter(data.schemas, isFAQSchema)
        validSchemas == Filter(faqSchemas, LAMBDA sc : sc.isValid)
        mainEntity == IF validSchemas = <<>> THEN <<>> ELSE validSchemas[1].mainEntity
        none == Len(faqSchemas) = 0
        invalid == ~none /\ Len(validSchemas) = 0
        empty == ~none /\ ~invalid /\ Len(mainEntity) = 0
        few == ~none /\ ~invalid /\ ~empty /\ Len(mainEntity) < 3
        good == ~none /\ ~invalid /\ ~empty /\ ~few
        score == IF none THEN 0
                 ELSE IF invalid THEN 20
                 ELSE IF empty THEN 30
                 ELSE IF few THEN 50
                 ELSE evaluateFAQQuality(mainEntity)
    IN AnalyzerResult(
         Num(Min(100, score)),
         When(none, Issue("high", "Missing FAQ Schema"))
            \o When(invalid, Issue("high", "Invalid FAQ Schema"))
            \o When(empty, Issue("medium", "Empty FAQ Schema"))
            \o When(few, Issue("medium", "Insufficient FAQ Content")),
         When(none, Recommendation(1, "Add FAQ Schema Markup"))
            \o When(few, Recommendation(2, "Expand FAQ Content"))
            \o When(good /\ score < 80, Recommendation(3, "Optimize FAQ Content"))
            \o When(~quick /\ findFAQIndicators(data) > 0 /\ none,
                    Recommendation(1, "Convert Existing FAQ Content")))

(***************************************************************************)
(* analyzers/SchemaMarkupAnalyzer.ts                                       *)
(* A block's data is its set of keys and the subset of them whose value is *)
(* truthy.                                                                 *)
(***************************************************************************)
IMPORTANT_SCHEMA_TYPES ==
    {"Article", "BlogPosting", "Product", "LocalBusiness", "Organization", "Person",
     "WebSite", "WebPage", "BreadcrumbList", "HowTo", "Recipe", "Event"}

\* the sum of the points of the properties that are truthy in data
Points(data, table) ==
    SumSeq([i \in 1..Len(table) |-> IF table[i][1] \in data.truthy THEN table[i][2] ELSE 0])

evaluateArticleSchema(data) ==
    Points(data, << <<"headline", 3>>, <<"author", 3>>, <<"datePublished", 3>>,
                    <<"image", 2>>, <<"publisher", 2>>, <<"description", 2>>,
                    <<"mainEntityOfPage", 2>>, <<"dateModified", 1>>,
                    <<"wordCount", 1>>, <<"articleSection", 1>> >>)

evaluateOrganizationSchema(data) ==
    Points(data, << <<"name", 4>>, <<"url", 3>>, <<"logo", 3>>, <<"address", 3>>,
                    <<"telephone", 2>>, <<"email", 2>>, <<"sameAs", 2>>,
                    <<"description", 1>> >>)

evaluateLocalBusinessSchema(data) ==
    Points(data, << <<"name", 3>>, <<"address", 4>>, <<"telephone", 3>>,
                    <<"openingHours", 3>>, <<"geo", 3>>, <<"url", 2>>,
                    <<"priceRange", 1>>, <<"image", 1>> >>)

evaluateProductSchema(data) ==
    Points(data, << <<"name", 4>>, <<"description", 3>>, <<"image", 3>>, <<"offers", 4>>,
                    <<"brand", 2>>, <<"sku", 2>>, <<"aggregateRating", 2>> >>)

evaluateGenericSchema(data) ==
    Min(10, Cardinality(data.keys))
        + Points(data, << <<"name", 2>>, <<"description", 2>>, <<"url", 1>>, <<"image", 1>> >>)

SchemaBlockScore(schema) ==
    CASE schema.type \in {"Article", "BlogPosting"} -> evaluateArticleSchema(schema.data)
      [] schema.type = "Organization" -> evaluateOrganizationSchema(schema.data)
      [] schema.type = "LocalBusiness" -> evaluateLocalBusinessSchema(schema.data)
      [] schema.type = "Product" -> evaluateProductSchema(schema.data)
      [] OTHER -> evaluateGenericSchema(schema.data)

\* Math.min(20, completenessScore / schemas.length): not rounded
evaluateSchemaCompleteness(schemas) ==
    NumMin(Num(20),
           Frac(SumSeq([i \in 1..Len(schemas) |-> SchemaBlockScore(schemas[i])]),
                Len(schemas)))

calculateSchemaScore(schemas) ==
    LET uniqueTypes == {schemas[i].type : i \in 1..Len(schemas)}
        hasImportantSchema == uniqueTypes \cap IMPORTANT_SCHEMA_TYPES # {}
        baseScore == 30 + Min(30, Cardinality(uniqueTypes) * 10)
                        + (IF hasImportantSchema THEN 20 ELSE 0)
    IN NumMin(Num(100), NumAdd(Num(baseScore), evaluateSchemaCompleteness(schemas)))

isArticleContent(data) ==
    data.content.articleIndicators /\ Len(data.headings) >= 3 /\ data.content.words >= 300

hasBreadcrumbs(data) ==
    data.content.breadcrumbIndicators
        \/ \E i \in 1..Len(data.links) : data.links[i].breadcrumbText

isHowToContent(data) ==
    data.content.howToIndicators /\ \E i \in 1..Len(data.headings) : data.headings[i].stepLike

\* findMissingSchemas(validSchemas, data).length > 0
findMissingSchemas(existingSchemas, data) ==
    LET existingTypes == {existingSchemas[i].type : i \in 1..Len(existingSchemas)}
    IN When({"Article", "BlogPosting"} \cap existingTypes = {} /\ isArticleContent(data), "Article")
       \o When("Organization" \notin existingTypes /\ data.content.organizationInfo, "Organization")
       \o When("WebSite" \notin existingTypes, "WebSite")
       \o When("BreadcrumbList" \notin existingTypes /\ hasBreadcrumbs(data), "BreadcrumbList")
       \o When("HowTo" \notin existingTypes /\ isHowToContent(data), "HowTo")
       \o When("LocalBusiness" \notin existingTypes /\ data.content.localIndicators, "LocalBusiness")

findMissingProperties(schema) ==
    CASE schema.type \in {"Article", "BlogPosting"} ->
            {"headline", "author", "datePublished", "image"} \ schema.data.truthy
      [] schema.type = "Organization" -> {"name", "url", "logo"} \ schema.data.truthy
      [] schema.type = "LocalBusiness" ->
            {"address", "telephone", "openingHours"} \ schema.data.truthy
      [] OTHER -> {}

checkSchemaCompleteness(schemas) ==
    LET incomplete == Filter(schemas, LAMBDA sc : findMissingProperties(sc) # {})
    IN [i \in 1..Len(incomplete) |-> Issue("low", "Incomplete Schema")]

SchemaMarkupAnalyzer(data, quick) ==
    LET validSchemas == Filter(data.schemas, LAMBDA sc : sc.isValid)
        invalidSchemas == Filter(data.schemas, LAMBDA sc : ~sc.isValid)
        score == IF Len(validSchemas) = 0 THEN Num(10) ELSE calculateSchemaScore(validSchemas)
    IN IF Len(data.schemas) = 0
       THEN AnalyzerResult(Num(0),
                           <<Issue("critical", "No Schema Markup Found")>>,
                           <<Recommendation(1, "Implement Basic Schema Markup")>>)
       ELSE AnalyzerResult(
              NumMin(Num(100), score),
              When(Len(validSchemas) = 0, Issue("high", "Invalid Schema Markup"))
                 \o When(Len(invalidSchemas) > 0, Issue("medium", "Invalid Schema(s)"))
                 \o (IF quick THEN <<>> ELSE checkSchemaCompleteness(validSchemas)),
              When(Len(invalidSchemas) > 0, Recommendation(2, "Fix Schema Validation Errors"))
                 \o When(findMissingSchemas(validSchemas, data) # <<>>,
                         Recommendation(1, "Add Missing Schema Types")))

(***************************************************************************)
(* AEOAnalyzer.ts: the registry built by the constructor and the dispatch  *)
(* analyzer.analyze(scrapedData, quick).                                   *)
(***************************************************************************)
\* the keys of the Map the constructor fills
RegisteredAnalyzers == Categories

analyze(category, data, quick) ==
    CASE category = "faq_schema" -> FAQSchemaAnalyzer(data, quick)
      [] category = "schema_markup" -> SchemaMarkupAnalyzer(data, quick)
      [] category = "content_structure" -> ContentStructureAnalyzer(data, quick)
      [] category = "featured_snippets" -> FeaturedSnippetsAnalyzer(data, quick)
      [] category = "entity_optimization" -> EntityOptimizationAnalyzer(data, quick)
      [] category = "meta_tags" -> MetaTagsAnalyzer(data, quick)
      [] category = "semantic_html" -> SemanticHTMLAnalyzer(data, quick)
      [] category = "voice_search" -> VoiceSearchAnalyzer(data, quick)
      [] category = "knowledge_graph" -> KnowledgeGraphAnalyzer(data, quick)
      [] category = "technical_seo" -> TechnicalSEOAnalyzer(data, quick)

\* issues.map(issue => ({ ...issue, category }))
Tag(items, category) ==
    [i \in 1..Len(items) |-> [f \in DOMAIN items[i] \cup {"category"} |->
                                 IF f = "category" THEN category ELSE items[i][f]]]

(***************************************************************************)
(* State of one AEOAnalyzer and of one analyzeWebpage call on it.          *)
(***************************************************************************)
VARIABLES
    analyzers,            \* this.analyzers: the categories that have an analyzer
    pc,                   \* "idle", "awaiting" (at the await of line 96), "done" (returned),
                          \* "rejected" (the call threw, line 152)
    scrapedData,          \* the document passed to the call
    options,              \* the options passed to the call
    failing,              \* the categories whose analyze() rejects in this run
    categoriesToAnalyze,  \* options.categories || Object.values(AEOCategory)
    idx,                  \* position in categoriesToAnalyze of the category being processed
    categoryScores,       \* the Partial<CategoryScores> being filled
    issues,               \* the issues in the order they were pushed
    recommendations,      \* the recommendations in the order they were pushed
    invoked,              \* the categories whose analyze() was called, in call order
    outcome,              \* per processed position: "skipped", "completed" or "failed"
    result                \* the AnalysisResult returned, once pc = "done"

\* The other entry points of the same AEOAnalyzer, and two callers that have
\* analyzeWebpage in flight at the same time.
VARIABLES
    analysis,             \* one analyzer's analyze(data, quick) called directly
    summary,              \* a getCategorySummary(scrapedData, category) call
    health,               \* a getHealthStatus() call
    calls                 \* per caller: the locals of its analyzeWebpage call

VARIABLES
    scraper,              \* routes/analysis.ts: the module-level WebScraper
    jobs,                 \* per request: its analyses record and its performAnalysis
    memory,               \* the file-backed server: its collections in memory
    files                 \* the file-backed server: its JSON files

\* the state outside the analyzer
servers == << scraper, jobs, memory, files >>

\* what an analyzeWebpage call of the first group leaves alone
secondary == << analysis, summary, health, calls >>

vars == << analyzers, pc, scrapedData, options, failing, categoriesToAnalyze, idx,
           categoryScores, issues, recommendations, invoked, outcome, result,
           analysis, summary, health, calls, scraper, jobs, memory, files >>

NoResult == [status |-> "none"]

NoDocument == [url |-> "none"]

NoOptions == [quick |-> FALSE]

EmptyScores == [k \in {} |-> Num(0)]

\* lines 123-148: fill, overall score, the two sorts, the result
BuildResult(scores, collectedIssues, collectedRecommendations) ==
    LET fullCategoryScores == fillMissingScores(scores)
    IN [overallScore |-> calculateOverallScore(fullCategoryScores),
        categoryScores |-> fullCategoryScores,
        issues |-> SortIssues(collectedIssues),
        recommendations |-> SortRecommendations(collectedRecommendations),
        status |-> "completed"]

\* the positions from i on whose category has an analyzer
Analyzable(categories, i) ==
    {j \in i..Len(categories) : categories[j] \in analyzers}

\* a variant in which a category without an analyzer ends the loop
RunLoopFrom_StopsAtMissing(i, categories, scores, collectedIssues, collectedRecommendations, done) ==
    IF i <= Len(categories) /\ categories[i] \in analyzers
    THEN /\ idx' = i
         /\ outcome' = done
         /\ invoked' = Append(invoked, categories[i])
         /\ pc' = "awaiting"
         /\ result' = result
    ELSE /\ idx' = Len(categories) + 1
         /\ outcome' = done \o [k \in 1..(Len(categories) + 1 - i) |-> "skipped"]
         /\ invoked' = invoked
         /\ pc' = "done"
         /\ result' = BuildResult(scores, collectedIssues, collectedRecommendations)

\* a variant that computes the result at every await, from the scores so far
RunLoopFrom_EagerOverall(i, categories, scores, collectedIssues, collectedRecommendations, done) ==
    IF Analyzable(categories, i) # {}
    THEN LET j == CHOOSE k \in Analyzable(categories, i) :
                      \A m \in Analyzable(categories, i) : k <= m
         IN /\ idx' = j
            /\ outcome' = done \o [k \in 1..(j - i) |-> "skipped"]
            /\ invoked' = Append(invoked, categories[j])
            /\ pc' = "awaiting"
            /\ result' = BuildResult(scores, collectedIssues, collectedRecommendations)
    ELSE /\ idx' = Len(categories) + 1
         /\ outcome' = done \o [k \in 1..(Len(categories) + 1 - i) |-> "skipped"]
         /\ invoked' = invoked
         /\ pc' = "done"
         /\ result' = BuildResult(scores, collectedIssues, collectedRecommendations)

\* The synchronous run of the loop from position i: every category without
\* an analyzer is skipped (line 91-94) up to the first one that has one, whose
\* analyze() is called and awaited (line 96); with none left the result is
\* built and returned.
RunLoopFrom(i, categories, scores, collectedIssues, collectedRecommendations, done) ==
    IF Analyzable(categories, i) # {}
    THEN LET j == CHOOSE k \in Analyzable(categories, i) :
                      \A m \in Analyzable(categories, i) : k <= m
         IN /\ idx' = j
            /\ outcome' = done \o [k \in 1..(j - i) |-> "skipped"]
            /\ invoked' = Append(invoked, categories[j])
            /\ pc' = "awaiting"
            /\ result' = result
    ELSE /\ idx' = Len(categories) + 1
         /\ outcome' = done \o [k \in 1..(Len(categories) + 1 - i) |-> "skipped"]
         /\ invoked' = invoked
         /\ pc' = "done"
         /\ result' = BuildResult(scores, collectedIssues, collectedRecommendations)

\* lines 75-96: a call of analyzeWebpage(data, opts); rejecting is the set of
\* categories whose analyzer throws during this call
analyzeWebpage(data, opts, rejecting) ==
    /\ pc = "idle"
    /\ scrapedData' = data
    /\ options' = opts
    /\ failing' = rejecting
    /\ categoriesToAnalyze' = IF opts.categories.given THEN opts.categories.list ELSE AEOCategory
    /\ categoryScores' = EmptyScores
    /\ issues' = <<>>
    /\ recommendations' = <<>>
    /\ RunLoopFrom(1, categoriesToAnalyze', EmptyScores, <<>>, <<>>, <<>>)
    /\ UNCHANGED analyzers
    /\ UNCHANGED << secondary, servers >>

\* the entries of scores with scores[key] set to value
Store(scores, key, value) ==
    [k \in DOMAIN scores \cup {key} |-> IF k = key THEN value ELSE scores[k]]

\* a variant that collects the recommendations whatever the options say
AnalyzerResolved_AlwaysRecommends ==
    /\ pc = "awaiting"
    /\ categoriesToAnalyze[idx] \notin failing
    /\ LET category == categoriesToAnalyze[idx]
           res == analyze(category, scrapedData, options.quick)
       IN /\ categoryScores' = Store(categoryScores, getCategoryScoreKey(category), res.score)
          /\ issues' = issues \o Tag(res.issues, category)
          /\ recommendations' = recommendations \o Tag(res.recommendations, category)
          /\ RunLoopFrom(idx + 1, categoriesToAnalyze, categoryScores', issues',
                         recommendations', Append(outcome, "completed"))
    /\ UNCHANGED << analyzers, scrapedData, options, failing, categoriesToAnalyze >>
    /\ UNCHANGED << secondary, servers >>

\* a variant whose analyzer empties the schemas array of the document it reads
AnalyzerResolved_ConsumesSchemas ==
    /\ pc = "awaiting"
    /\ categoriesToAnalyze[idx] \notin failing
    /\ LET category == categoriesToAnalyze[idx]
           res == analyze(category, scrapedData, options.quick)
       IN /\ categoryScores' = Store(categoryScores, getCategoryScoreKey(category), res.score)
          /\ issues' = issues \o Tag(res.issues, category)
          /\ recommendations' =
                IF options.includeRecommendations = "true"
                THEN recommendations \o Tag(res.recommendations, category)
                ELSE recommendations
          /\ RunLoopFrom(idx + 1, categoriesToAnalyze, categoryScores', issues',
                         recommendations', Append(outcome, "completed"))
    /\ scrapedData' = [scrapedData EXCEPT !.schemas = <<>>]
    /\ UNCHANGED << analyzers, options, failing, categoriesToAnalyze >>
    /\ UNCHANGED << secondary, servers >>

\* lines 96-113, then the loop: analyze() resolved
AnalyzerResolved ==
    /\ pc = "awaiting"
    /\ categoriesToAnalyze[idx] \notin failing
    /\ LET category == categoriesToAnalyze[idx]
           res == analyze(category, scrapedData, options.quick)
       IN /\ categoryScores' = Store(categoryScores, getCategoryScoreKey(category), res.score)
          /\ issues' = issues \o Tag(res.issues, category)
          /\ recommendations' =
                IF options.includeRecommendations = "true"
                THEN recommendations \o Tag(res.recommendations, category)
                ELSE recommendations
          /\ RunLoopFrom(idx + 1, categoriesToAnalyze, categoryScores', issues',
                         recommendations', Append(outcome, "completed"))
    /\ UNCHANGED << analyzers, scrapedData, options, failing, categoriesToAnalyze >>
    /\ UNCHANGED << secondary, servers >>

\* a variant whose catch block forgets the scores collected so far
AnalyzerRejected_ClearsScores ==
    /\ pc = "awaiting"
    /\ categoriesToAnalyze[idx] \in failing
    /\ categoryScores' = Store(EmptyScores, getCategoryScoreKey(categoriesToAnalyze[idx]), Num(0))
    /\ RunLoopFrom(idx + 1, categoriesToAnalyze, categoryScores', issues, recommendations,
                   Append(outcome, "failed"))
    /\ UNCHANGED << analyzers, scrapedData, options, failing, categoriesToAnalyze,
                    issues, recommendations >>
    /\ UNCHANGED << secondary, servers >>

\* a variant in which the analyzer's issues are collected before the failure
AnalyzerRejected_KeepsIssues ==
    /\ pc = "awaiting"
    /\ categoriesToAnalyze[idx] \in failing
    /\ categoryScores' = Store(categoryScores, getCategoryScoreKey(categoriesToAnalyze[idx]), Num(0))
    /\ issues' = issues \o Tag(analyze(categoriesToAnalyze[idx], scrapedData, options.quick).issues,
                               categoriesToAnalyze[idx])
    /\ RunLoopFrom(idx + 1, categoriesToAnalyze, categoryScores', issues', recommendations,
                   Append(outcome, "failed"))
    /\ UNCHANGED << analyzers, scrapedData, options, failing, categoriesToAnalyze,
                    recommendations >>
    /\ UNCHANGED << secondary, servers >>

\* a variant without the inner catch: the failure reaches the outer catch
\* (line 150-153) and the call rejects
AnalyzerRejected_Rethrows ==
    /\ pc = "awaiting"
    /\ categoriesToAnalyze[idx] \in failing
    /\ pc' = "rejected"
    /\ UNCHANGED << analyzers, scrapedData, options, failing, categoriesToAnalyze, idx,
                    categoryScores, issues, recommendations, invoked, outcome, result >>
    /\ UNCHANGED << secondary, servers >>

\* lines 115-119, then the loop: analyze() rejected
AnalyzerRejected ==
    /\ pc = "awaiting"
    /\ categoriesToAnalyze[idx] \in failing
    /\ categoryScores' = Store(categoryScores, getCategoryScoreKey(categoriesToAnalyze[idx]), Num(0))
    /\ RunLoopFrom(idx + 1, categoriesToAnalyze, categoryScores', issues, recommendations,
                   Append(outcome, "failed"))
    /\ UNCHANGED << analyzers, scrapedData, options, failing, categoriesToAnalyze,
                    issues, recommendations >>
    /\ UNCHANGED << secondary, servers >>

(***************************************************************************)
(* The inputs that are enumerated.                                         *)
(***************************************************************************)
Heading(level) == [level |-> level, faqLike |-> FALSE, stepLike |-> FALSE]

MetaTag(name) == [name |-> name, restrictive |-> FALSE]

OgTag(property) == [property |-> property, validUrl |-> TRUE]

\* the test document of getHealthStatus: 'Test', 'Test description', 'Test content'
MinimalPage ==
    [title |-> [length |-> 4, blank |-> FALSE, duplicateWords |-> FALSE, brandName |-> FALSE],
     metaDescription |-> [length |-> 16, blank |-> FALSE, callToAction |-> FALSE,
                          generic |-> FALSE],
     headings |-> <<>>,
     content |-> [length |-> 12, words |-> 2, readability |-> 36, snippetCandidates |-> 0,
                  answersCommonQuestions |-> FALSE, entityMentions |-> FALSE,
                  questionMatches |-> 0, articleIndicators |-> FALSE,
                  organizationInfo |-> FALSE, breadcrumbIndicators |-> FALSE,
                  howToIndicators |-> FALSE, localIndicators |-> FALSE],
     metaTags |-> <<>>,
     openGraphTags |-> <<>>,
     links |-> <<>>,
     performance |-> [loadTime |-> 0, pageSize |-> 0, lcp |-> 0]]

\* a page that takes the good branch of most checks
RichPage ==
    [title |-> [length |-> 55, blank |-> FALSE, duplicateWords |-> FALSE, brandName |-> TRUE],
     metaDescription |-> [length |-> 155, blank |-> FALSE, callToAction |-> TRUE,
                          generic |-> FALSE],
     headings |-> << Heading(1), Heading(2), Heading(2), Heading(3) >>,
     content |-> [length |-> 2400, words |-> 400, readability |-> 70, snippetCandidates |-> 1,
                  answersCommonQuestions |-> TRUE, entityMentions |-> TRUE,
                  questionMatches |-> 1, articleIndicators |-> TRUE,
                  organizationInfo |-> TRUE, breadcrumbIndicators |-> FALSE,
                  howToIndicators |-> FALSE, localIndicators |-> FALSE],
     metaTags |-> << MetaTag("description"), MetaTag("viewport"), MetaTag("robots"),
                     MetaTag("twitter:card") >>,
     openGraphTags |-> << OgTag("og:title"), OgTag("og:description"), OgTag("og:image"),
                          OgTag("og:url") >>,
     links |-> << [authority |-> TRUE, breadcrumbText |-> FALSE] >>,
     performance |-> [loadTime |-> 1200, pageSize |-> 500000, lcp |-> 1800]]

\* a page that takes the penalty branch of most checks
PoorPage ==
    [title |-> [length |-> 0, blank |-> TRUE, duplicateWords |-> FALSE, brandName |-> FALSE],
     metaDescription |-> [length |-> 200, blank |-> FALSE, callToAction |-> FALSE,
                          generic |-> TRUE],
     headings |-> << [level |-> 1, faqLike |-> TRUE, stepLike |-> FALSE], Heading(3) >>,
     content |-> [length |-> 900, words |-> 150, readability |-> 40, snippetCandidates |-> 0,
                  answersCommonQuestions |-> FALSE, entityMentions |-> FALSE,
                  questionMatches |-> 0, articleIndicators |-> FALSE,
                  organizationInfo |-> FALSE, breadcrumbIndicators |-> FALSE,
                  howToIndicators |-> TRUE, localIndicators |-> TRUE],
     metaTags |-> << [name |-> "robots", restrictive |-> TRUE] >>,
     openGraphTags |-> << [property |-> "og:image", validUrl |-> FALSE] >>,
     links |-> << [authority |-> FALSE, breadcrumbText |-> TRUE] >>,
     performance |-> [loadTime |-> 3001, pageSize |-> 3000001, lcp |-> 2501]]

Pages == {MinimalPage, RichPage, PoorPage}

Data(keys, truthy) == [keys |-> keys, truthy |-> truthy]

FaqEntry(goodQuestion, goodAnswer) == [goodQuestion |-> goodQuestion, goodAnswer |-> goodAnswer]

ArticleBlock ==
    [type |-> "Article", atType |-> "Article", isValid |-> TRUE, mainEntity |-> <<>>,
     data |-> Data({"@context", "@type", "headline", "image"}, {"@context", "@type", "headline"})]

OrganizationBlock ==
    [type |-> "Organization", atType |-> "Organization", isValid |-> TRUE, mainEntity |-> <<>>,
     data |-> Data({"@context", "@type", "name", "url", "logo"},
                   {"@context", "@type", "name", "url", "logo"})]

FAQBlock ==
    [type |-> "FAQPage", atType |-> "FAQPage", isValid |-> TRUE,
     mainEntity |-> << FaqEntry(TRUE, TRUE), FaqEntry(TRUE, FALSE), FaqEntry(FALSE, FALSE) >>,
     data |-> Data({"@context", "@type", "mainEntity"}, {"@context", "@type", "mainEntity"})]

InvalidBlock ==
    [type |-> "Unknown", atType |-> "", isValid |-> FALSE, mainEntity |-> <<>>,
     data |-> Data({}, {})]

SchemaBlocks == {ArticleBlock, OrganizationBlock, FAQBlock, InvalidBlock}

ValidUrl == "https://example.com"

\* a ScrapedData: a page, its structured-data blocks and its url
Document(page, schemas, url) ==
    [f \in DOMAIN page \cup {"schemas", "url"} |->
        IF f = "schemas" THEN schemas ELSE IF f = "url" THEN url ELSE page[f]]

Documents ==
    {Document(RichPage, sc, ValidUrl) : sc \in SeqsUpTo(SchemaBlocks, MaxSchemas)}
        \cup {Document(pg, <<>>, url) : pg \in Pages, url \in {ValidUrl, ""}}

\* a value that is not a member of the AEOCategory enum
UnknownCategory == "unknown_category"

\* the categories that the enumerated options.categories lists are made of
RequestedPool == {"faq_schema", "schema_markup", "meta_tags", UnknownCategory}

Options ==
    [categories : {[given |-> FALSE, list |-> <<>>]}
                    \cup {[given |-> TRUE, list |-> l] : l \in SeqsUpTo(RequestedPool, MaxCategories)},
     quick : BOOLEAN,
     includeRecommendations : {"absent", "false", "true"}]

\* the sets of analyzers that throw: none, any single one, a few, all ten
FailingSets ==
    {{}} \cup {{c} : c \in Categories} \cup {{"faq_schema", "meta_tags"}} \cup {Categories}

\* The documents on which a single analyzer is called: what the analyzer
\* reads takes the values on both sides of every threshold of its code.
TitleVariants ==
    {[length |-> n, blank |-> n = 0, duplicateWords |-> d, brandName |-> b] :
        n \in {0, 29, 30, 55, 60, 61}, d \in BOOLEAN, b \in BOOLEAN}
    \cup {[length |-> 40, blank |-> TRUE, duplicateWords |-> FALSE, brandName |-> FALSE]}

DescriptionVariants ==
    {[length |-> n, blank |-> n = 0, callToAction |-> a, generic |-> g] :
        n \in {0, 119, 120, 155, 160, 161}, a \in BOOLEAN, g \in BOOLEAN}
    \cup {[length |-> 130, blank |-> TRUE, callToAction |-> FALSE, generic |-> FALSE]}

MetaTagLists ==
    {<<>>, RichPage.metaTags, PoorPage.metaTags,
     << MetaTag("description"), MetaTag("keywords"), MetaTag("author"), MetaTag("viewport"),
        MetaTag("robots"), MetaTag("twitter:card"), MetaTag("twitter:title"),
        MetaTag("twitter:description"), MetaTag("twitter:image") >>}

OpenGraphLists ==
    {<<>>, RichPage.openGraphTags, PoorPage.openGraphTags,
     << OgTag("og:title"), OgTag("og:description"), OgTag("og:image"), OgTag("og:url"),
        OgTag("og:type"), OgTag("og:locale") >>}

HeadingLists ==
    {<<>>, RichPage.headings, PoorPage.headings, << Heading(2) >>,
     << Heading(1), Heading(1) >>,
     << Heading(1), [level |-> 2, faqLike |-> FALSE, stepLike |-> TRUE], Heading(3) >>}

Contents == {pg.content : pg \in Pages}

LinkLists == {<<>>, RichPage.links, PoorPage.links}

Performances ==
    {pg.performance : pg \in Pages}
        \cup {[loadTime |-> 3000, pageSize |-> 3000000, lcp |-> 2500],
              [loadTime |-> 3001, pageSize |-> 0, lcp |-> 0]}

\* an Article block with every property that evaluateArticleSchema scores
CompleteArticleBlock ==
    [type |-> "BlogPosting", atType |-> "BlogPosting", isValid |-> TRUE, mainEntity |-> <<>>,
     data |-> Data({"@context", "@type", "headline", "author", "datePublished", "image",
                    "publisher", "description", "mainEntityOfPage", "dateModified",
                    "wordCount", "articleSection"},
                   {"@context", "@type", "headline", "author", "datePublished", "image",
                    "publisher", "description", "mainEntityOfPage", "dateModified",
                    "wordCount", "articleSection"})]

ProductBlock ==
    [type |-> "Product", atType |-> "Product", isValid |-> TRUE, mainEntity |-> <<>>,
     data |-> Data({"@context", "@type", "name", "description", "image", "offers", "brand",
                    "sku", "aggregateRating"},
                   {"@context", "@type", "name", "description", "image", "offers", "brand",
                    "sku", "aggregateRating"})]

\* a FAQ block with twelve good entries: 70 + 12 * 5 points before the cap
LongFAQBlock ==
    [type |-> "WebPage", atType |-> "FAQPage", isValid |-> TRUE,
     mainEntity |-> [i \in 1..12 |-> FaqEntry(TRUE, TRUE)],
     data |-> Data({"@context", "@type", "mainEntity", "name", "description", "url", "image"},
                   {"@context", "@type", "mainEntity", "name", "description", "url", "image"})]

\* a blog posting that has a headline and nothing else
SparseArticleBlock ==
    [type |-> "BlogPosting", atType |-> "BlogPosting", isValid |-> TRUE, mainEntity |-> <<>>,
     data |-> Data({"@context", "@type", "headline"}, {"@context", "@type", "headline"})]

AnalyzerSchemaBlocks ==
    SchemaBlocks \cup {CompleteArticleBlock, ProductBlock, LongFAQBlock, SparseArticleBlock}

\* the documents analyze() of the analyzer of category is called with
AnalyzerInputs(category) ==
    CASE category = "meta_tags" ->
            {Document([RichPage EXCEPT !.title = t, !.metaDescription = d,
                                       !.metaTags = mt, !.openGraphTags = og],
                      <<>>, ValidUrl) :
                t \in TitleVariants, d \in DescriptionVariants,
                mt \in MetaTagLists, og \in OpenGraphLists}
      [] category = "technical_seo" ->
            {Document([RichPage EXCEPT !.performance = pf], <<>>, ValidUrl) :
                pf \in Performances}
      [] category = "knowledge_graph" ->
            {Document([RichPage EXCEPT !.links = ln], <<>>, ValidUrl) : ln \in LinkLists}
      [] category \in {"faq_schema", "schema_markup"} ->
            {Document(pg, sc, ValidUrl) :
                pg \in Pages, sc \in SeqsUpTo(AnalyzerSchemaBlocks, MaxSchemas)}
      [] OTHER ->
            {Document([RichPage EXCEPT !.headings = hd, !.content = ct], <<>>, ValidUrl) :
                hd \in HeadingLists, ct \in Contents}

\* the documents getCategorySummary is called with: those of analyzeWebpage and
\* one whose structured data scores in the highest band
SummaryDocuments ==
    Documents \cup {Document(RichPage, << LongFAQBlock, CompleteArticleBlock >>, ValidUrl)}

\* the categories getCategorySummary is asked for
SummaryCategories == Categories \cup {UnknownCategory}

\* what the two callers pass
CallerDocuments ==
    {Document(RichPage, << FAQBlock >>, ValidUrl), Document(PoorPage, <<>>, ValidUrl)}

CallerOptions ==
    [categories : {[given |-> FALSE, list |-> <<>>]}
                    \cup {[given |-> TRUE, list |-> l] :
                            l \in SeqsUpTo({"faq_schema", "meta_tags"}, MaxCategories)},
     quick : {FALSE},
     includeRecommendations : {"absent", "true"}]

CallerFailingSets == {{}, {"meta_tags"}}

(***************************************************************************)
(* The secondary entry points.  Each is modelled on an analyzer on which   *)
(* no other operation is in flight.                                        *)
(***************************************************************************)
\* the variables of the analyzeWebpage call of the first group
primary == << analyzers, pc, scrapedData, options, failing, categoriesToAnalyze, idx,
              categoryScores, issues, recommendations, invoked, outcome, result >>

NoAnalysis ==
    [pc |-> "idle", category |-> "none", data |-> NoDocument, quick |-> FALSE,
     result |-> NoResult]

NoSummary ==
    [pc |-> "idle", category |-> "none", data |-> NoDocument, failing |-> {},
     invoked |-> <<>>, result |-> NoResult]

\* the test document of getHealthStatus, lines 285-297
testData == Document(MinimalPage, <<>>, ValidUrl)

NoHealth ==
    [pc |-> "idle", position |-> 0, data |-> NoDocument, quick |-> FALSE, failing |-> {},
     invoked |-> <<>>, status |-> [c \in {} |-> FALSE], returned |-> FALSE]

OperationsIdle ==
    /\ analysis.pc = "idle"
    /\ summary.pc = "idle"
    /\ health.pc = "idle"

\* analyzer.analyze(data, quick) of the analyzer registered for category: the
\* body has no await, it runs to its return
Analyze(category, data, quick) ==
    /\ OperationsIdle
    /\ category \in analyzers
    /\ analysis' = [pc |-> "done", category |-> category, data |-> data, quick |-> quick,
                    result |-> analyze(category, data, quick)]
    /\ UNCHANGED << summary, health, calls >>
    /\ UNCHANGED << primary, servers >>

\* AEOAnalyzer.getCategorySummary, lines 232-246: the lookup, the throw for a
\* category without analyzer, the call of analyze(scrapedData, false)
getCategorySummary(data, category, rejecting) ==
    /\ OperationsIdle
    /\ summary' = IF category \in analyzers
                  THEN [pc |-> "awaiting", category |-> category, data |-> data,
                        failing |-> rejecting, invoked |-> <<category>>,
                        result |-> NoResult]
                  ELSE [pc |-> "rejected", category |-> category, data |-> data,
                        failing |-> rejecting, invoked |-> <<>>, result |-> NoResult]
    /\ UNCHANGED << analysis, health, calls >>
    /\ UNCHANGED << primary, servers >>

\* a variant that reports the severity one band too mild
SummaryResolved_MildSeverity ==
    /\ summary.pc = "awaiting"
    /\ summary.category \notin summary.failing
    /\ LET res == analyze(summary.category, summary.data, FALSE)
       IN summary' = [summary EXCEPT
                        !.pc = "done",
                        !.result = [score |-> res.score,
                                    severity |-> getSeverityFromScore(NumAdd(res.score, Num(20))),
                                    issues |-> Tag(res.issues, summary.category),
                                    recommendations |-> Tag(res.recommendations,
                                                            summary.category)]]
    /\ UNCHANGED << analysis, health, calls >>
    /\ UNCHANGED << primary, servers >>

\* lines 246-254: analyze() resolved
SummaryResolved ==
    /\ summary.pc = "awaiting"
    /\ summary.category \notin summary.failing
    /\ LET res == analyze(summary.category, summary.data, FALSE)
       IN summary' = [summary EXCEPT
                        !.pc = "done",
                        !.result = [score |-> res.score,
                                    severity |-> getSeverityFromScore(res.score),
                                    issues |-> Tag(res.issues, summary.category),
                                    recommendations |-> Tag(res.recommendations,
                                                            summary.category)]]
    /\ UNCHANGED << analysis, health, calls >>
    /\ UNCHANGED << primary, servers >>

\* line 246 without a catch: analyze() rejected and so does the summary
SummaryRejected ==
    /\ summary.pc = "awaiting"
    /\ summary.category \in summary.failing
    /\ summary' = [summary EXCEPT !.pc = "rejected"]
    /\ UNCHANGED << analysis, health, calls >>
    /\ UNCHANGED << primary, servers >>

\* for (const [category, analyzer] of this.analyzers): the Map iterates in
\* insertion order, the order of the constructor
AnalyzerEntries == SelectSeq(AEOCategory, LAMBDA c : c \in analyzers)

\* the loop of getHealthStatus from position i: the next analyzer is called
\* with the test document and quick = true, or the status is returned
HealthLoopFrom(h, i) ==
    IF i <= Len(AnalyzerEntries)
    THEN [h EXCEPT !.pc = "awaiting", !.position = i, !.data = testData, !.quick = TRUE,
                   !.invoked = Append(@, AnalyzerEntries[i])]
    ELSE [h EXCEPT !.pc = "done", !.position = i, !.returned = TRUE]

\* the entries of status with status[category] set to value
SetStatus(status, category, value) ==
    [c \in DOMAIN status \cup {category} |-> IF c = category THEN value ELSE status[c]]

\* AEOAnalyzer.getHealthStatus, lines 279-299
getHealthStatus(rejecting) ==
    /\ OperationsIdle
    /\ health' = HealthLoopFrom([NoHealth EXCEPT !.failing = rejecting], 1)
    /\ UNCHANGED << analysis, summary, calls >>
    /\ UNCHANGED << primary, servers >>

\* lines 299-300, then the loop: the analyzer returned
HealthResolved ==
    /\ health.pc = "awaiting"
    /\ AnalyzerEntries[health.position] \notin health.failing
    /\ health' = HealthLoopFrom(
                    [health EXCEPT !.status =
                        SetStatus(@, AnalyzerEntries[health.position], TRUE)],
                    health.position + 1)
    /\ UNCHANGED << analysis, summary, calls >>
    /\ UNCHANGED << primary, servers >>

\* a variant without the catch: the first failure ends the health check
HealthRejected_Aborts ==
    /\ health.pc = "awaiting"
    /\ AnalyzerEntries[health.position] \in health.failing
    /\ health' = [health EXCEPT !.pc = "rejected"]
    /\ UNCHANGED << analysis, summary, calls >>
    /\ UNCHANGED << primary, servers >>

\* lines 301-304, then the loop: the analyzer threw
HealthRejected ==
    /\ health.pc = "awaiting"
    /\ AnalyzerEntries[health.position] \in health.failing
    /\ health' = HealthLoopFrom(
                    [health EXCEPT !.status =
                        SetStatus(@, AnalyzerEntries[health.position], FALSE)],
                    health.position + 1)
    /\ UNCHANGED << analysis, summary, calls >>
    /\ UNCHANGED << primary, servers >>

(***************************************************************************)
(* Two callers of analyzeWebpage on the same AEOAnalyzer (the module-level *)
(* instance of routes/analysis.ts).  categoriesToAnalyze, categoryScores,  *)
(* issues and recommendations are locals of the call (lines 82-85): each   *)
(* call in flight has its own.  A call is a record of its arguments and    *)
(* locals; its steps are the steps of the first group, as functions.       *)
(***************************************************************************)
Callers == {1, 2}

NoCall ==
    [pc |-> "idle", scrapedData |-> NoDocument, options |-> NoOptions, failing |-> {},
     categoriesToAnalyze |-> <<>>, idx |-> 0, categoryScores |-> EmptyScores,
     issues |-> <<>>, recommendations |-> <<>>, result |-> NoResult,
     overlapped |-> FALSE]

NoCalls == [c \in Callers |-> NoCall]

\* the loop from position i up to the next await (line 96) or to the return
LoopFrom(call, i) ==
    LET ready == {j \in i..Len(call.categoriesToAnalyze) :
                     call.categoriesToAnalyze[j] \in analyzers}
    IN IF ready # {}
       THEN [call EXCEPT !.pc = "awaiting",
                         !.idx = CHOOSE k \in ready : \A j \in ready : k <= j]
       ELSE [call EXCEPT !.pc = "done",
                         !.idx = Len(call.categoriesToAnalyze) + 1,
                         !.result = BuildResult(call.categoryScores, call.issues,
                                                call.recommendations)]

\* lines 75-96: the call up to its first await
Started(data, opts, rejecting) ==
    LoopFrom([NoCall EXCEPT
                !.scrapedData = data,
                !.options = opts,
                !.failing = rejecting,
                !.categoriesToAnalyze =
                    IF opts.categories.given THEN opts.categories.list ELSE AEOCategory],
             1)

\* lines 96-113 and the loop: analyze() resolved
Resolved(call) ==
    LET category == call.categoriesToAnalyze[call.idx]
        res == analyze(category, call.scrapedData, call.options.quick)
    IN LoopFrom([call EXCEPT
                   !.categoryScores = Store(@, getCategoryScoreKey(category), res.score),
                   !.issues = @ \o Tag(res.issues, category),
                   !.recommendations =
                       IF call.options.includeRecommendations = "true"
                       THEN @ \o Tag(res.recommendations, category)
                       ELSE @],
                call.idx + 1)

\* a variant in which a failure ends the loop
Rejected_EndsLoop(call) ==
    LoopFrom([call EXCEPT
                !.categoryScores =
                    Store(@, getCategoryScoreKey(call.categoriesToAnalyze[call.idx]), Num(0))],
             Len(call.categoriesToAnalyze) + 1)

\* lines 115-119 and the loop: analyze() rejected
Rejected(call) ==
    LoopFrom([call EXCEPT
                !.categoryScores =
                    Store(@, getCategoryScoreKey(call.categoriesToAnalyze[call.idx]), Num(0))],
             call.idx + 1)

\* the awaited analyze() settles
Settled(call) ==
    IF call.categoriesToAnalyze[call.idx] \in call.failing
    THEN Rejected(call)
    ELSE Resolved(call)

\* the call run with no other call on the analyzer: every await settles
\* before anything else happens
RECURSIVE RunToCompletion(_)
RunToCompletion(call) ==
    IF call.pc = "awaiting" THEN RunToCompletion(Settled(call)) ELSE call

AloneResult(data, opts, rejecting) == RunToCompletion(Started(data, opts, rejecting)).result

\* some other caller is at an await
OtherInFlight(c) == \E d \in Callers \ {c} : calls[d].pc = "awaiting"

\* a variant whose issue list is a field of the analyzer, never emptied: the
\* call starts with what the other call has pushed
CallerStarts_KeepsIssues(c, data, opts, rejecting) ==
    /\ calls[c].pc = "idle"
    /\ calls' = [calls EXCEPT ![c] =
                    LET other == CHOOSE d \in Callers : d # c
                        call == Started(data, opts, rejecting)
                    IN IF call.pc = "done"
                       THEN [call EXCEPT !.result.issues = calls[other].issues \o @]
                       ELSE [call EXCEPT !.issues = calls[other].issues]]
    /\ UNCHANGED << analysis, summary, health >>
    /\ UNCHANGED << primary, servers >>

\* caller c calls analyzeWebpage(data, opts)
CallerStarts(c, data, opts, rejecting) ==
    /\ calls[c].pc = "idle"
    /\ calls' = [calls EXCEPT ![c] = Started(data, opts, rejecting)]
    /\ UNCHANGED << analysis, summary, health >>
    /\ UNCHANGED << primary, servers >>

\* a variant whose score map is a field of the analyzer: a score is stored
\* into the map of every call in flight
CallerResolved_SharedScores(c) ==
    /\ calls[c].pc = "awaiting"
    /\ calls[c].categoriesToAnalyze[calls[c].idx] \notin calls[c].failing
    /\ LET category == calls[c].categoriesToAnalyze[calls[c].idx]
           score == analyze(category, calls[c].scrapedData, calls[c].options.quick).score
       IN calls' = [d \in Callers |->
                      IF d = c
                      THEN [Resolved(calls[c]) EXCEPT !.overlapped = @ \/ OtherInFlight(c)]
                      ELSE IF calls[d].pc = "awaiting"
                           THEN [calls[d] EXCEPT !.categoryScores =
                                    Store(@, getCategoryScoreKey(category), score)]
                           ELSE calls[d]]
    /\ UNCHANGED << analysis, summary, health >>
    /\ UNCHANGED << primary, servers >>

\* the analyze() that caller c's call awaits resolves
CallerResolved(c) ==
    /\ calls[c].pc = "awaiting"
    /\ calls[c].categoriesToAnalyze[calls[c].idx] \notin calls[c].failing
    /\ calls' = [calls EXCEPT ![c] =
                    [Resolved(calls[c]) EXCEPT !.overlapped = @ \/ OtherInFlight(c)]]
    /\ UNCHANGED << analysis, summary, health >>
    /\ UNCHANGED << primary, servers >>

\* the analyze() that caller c's call awaits rejects
CallerRejected(c) ==
    /\ calls[c].pc = "awaiting"
    /\ calls[c].categoriesToAnalyze[calls[c].idx] \in calls[c].failing
    /\ calls' = [calls EXCEPT ![c] =
                    [Rejected(calls[c]) EXCEPT !.overlapped = @ \/ OtherInFlight(c)]]
    /\ UNCHANGED << analysis, summary, health >>
    /\ UNCHANGED << primary, servers >>

(***************************************************************************)
(* routes/analysis.ts: POST /analyze and performAnalysis, run for two      *)
(* requests on the module-level scraper, analyzer and fixGenerator.  Each  *)
(* await of performAnalysis, scrapeUrl and close is a step.  An update of  *)
(* the status of an existing record is accepted by the database; an insert *)
(* into the fixes table may be rejected.                                   *)
(***************************************************************************)
Jobs == {1, 2}

\* what goes wrong for one analysis: puppeteer.launch rejects, the page does
\* not load in the browser, the plain HTTP request fails, the AI call of
\* generateFix fails, the insert into fixes is rejected
FaultSets == {{}, {"launch"}, {"page"}, {"page", "axios"}, {"generate"}, {"insert"}}

\* what is served at the url of the request
NoSite == [page |-> "none"]

Sites ==
    {[page |-> RichPage, schemas |-> << ArticleBlock >>],
     [page |-> PoorPage, schemas |-> <<>>]}

\* the options of the request body
RequestOptions ==
    {[quick |-> FALSE, categories |-> [given |-> FALSE, list |-> <<>>]],
     [quick |-> TRUE, categories |-> [given |-> TRUE, list |-> << "faq_schema", "meta_tags" >>]]}

NoJob ==
    [pc |-> "none", status |-> "none", site |-> NoSite, options |-> NoOptions, faults |-> {},
     browser |-> 0, via |-> "none", scrapedData |-> NoDocument, invoked |-> FALSE,
     result |-> NoResult, criticalCategories |-> <<>>, position |-> 0,
     requested |-> <<>>, fixes |-> <<>>, stored |-> <<>>]

NoJobs == [j \in Jobs |-> NoJob]

\* this.browser (0 for null), the browsers that are running, the launches so far
NoScraper == [browser |-> 0, open |-> {}, launched |-> 0]

\* this.browser = await puppeteer.launch(...)
Launched(s) ==
    [browser |-> s.launched + 1, open |-> s.open \cup {s.launched + 1},
     launched |-> s.launched + 1]

\* the ScrapedData of the site: only the browser measures the core web vitals
Scraped(site, via) ==
    Document([site.page EXCEPT !.performance.lcp = IF via = "puppeteer" THEN @ ELSE 0],
             site.schemas, ValidUrl)

\* the options performAnalysis passes to analyzeWebpage
AnalysisOptions(opts) ==
    [quick |-> opts.quick, categories |-> opts.categories, includeRecommendations |-> "true"]

\* Object.entries(categoryScores).filter(score < 60).map(key)
criticalCategories(scores) ==
    SelectSeq(CategoryScoreKeys, LAMBDA k : ~NumLeq(Num(60), scores[k]))

\* criticalCategories.slice(0, 3)
Slice3(list) == SubSeq(list, 1, Min(3, Len(list)))

\* mapping[category] || [FixType.TECHNICAL_FIX]
getFixTypesForCategory(category) ==
    CASE category = "faq_schema" -> << "faq_generation" >>
      [] category \in {"schema_markup", "knowledge_graph"} -> << "schema_generation" >>
      [] category = "meta_tags" -> << "meta_optimization" >>
      [] category \in {"content_structure", "featured_snippets", "entity_optimization",
                       "voice_search"} -> << "content_rewrite" >>
      [] category = "semantic_html" -> << "html_restructure" >>
      [] OTHER -> << "technical_fix" >>

\* generateCategoryFixes: one fix per fix type; a failed generateFix is logged
\* and skipped
generateCategoryFixes(category, faults) ==
    IF "generate" \in faults THEN <<>>
    ELSE [i \in 1..Len(getFixTypesForCategory(category)) |->
            [category |-> category, fixType |-> getFixTypesForCategory(category)[i]]]

\* POST /analyze: the record is inserted as pending, performAnalysis is started
PostAnalyze(j, site, opts, faults) ==
    /\ jobs[j].pc = "none"
    /\ jobs' = [jobs EXCEPT ![j] =
                  [NoJob EXCEPT !.pc = "start", !.status = "pending", !.site = site,
                                !.options = opts, !.faults = faults]]
    /\ UNCHANGED scraper
    /\ UNCHANGED << primary, secondary, memory, files >>

\* lines 215-220: the update to in_progress
UpdateInProgress(j) ==
    /\ jobs[j].pc = "start"
    /\ jobs' = [jobs EXCEPT ![j].status = "in_progress", ![j].pc = "initialize"]
    /\ UNCHANGED scraper
    /\ UNCHANGED << primary, secondary, memory, files >>

\* line 223: scraper.initialize() launches a browser and overwrites this.browser
Initialize(j) ==
    /\ jobs[j].pc = "initialize"
    /\ IF "launch" \in jobs[j].faults
       THEN /\ jobs' = [jobs EXCEPT ![j].pc = "catch"]
            /\ UNCHANGED scraper
       ELSE /\ scraper' = Launched(scraper)
            /\ jobs' = [jobs EXCEPT ![j].pc = "scrape"]
    /\ UNCHANGED << primary, secondary, memory, files >>

\* scrapeUrl, scrapeWithPuppeteer lines 103-108: initialize() if this.browser
\* is null, then this.browser.newPage()
NewPage(j) ==
    /\ jobs[j].pc = "scrape"
    /\ LET launchFails == scraper.browser = 0 /\ "launch" \in jobs[j].faults
           s == IF scraper.browser = 0 /\ ~launchFails THEN Launched(scraper) ELSE scraper
       IN /\ scraper' = s
          /\ IF launchFails \/ s.browser \notin s.open
             THEN jobs' = [jobs EXCEPT ![j].pc = "fallback"]
             ELSE jobs' = [jobs EXCEPT ![j].browser = s.browser, ![j].pc = "page"]
    /\ UNCHANGED << primary, secondary, memory, files >>

\* scrapeWithPuppeteer lines 110-165: the page is loaded and read; this fails
\* when the browser of the page has been closed
LoadPage(j) ==
    /\ jobs[j].pc = "page"
    /\ IF jobs[j].browser \in scraper.open /\ "page" \notin jobs[j].faults
       THEN jobs' = [jobs EXCEPT ![j].via = "puppeteer",
                                 ![j].scrapedData = Scraped(jobs[j].site, "puppeteer"),
                                 ![j].pc = "analyze"]
       ELSE jobs' = [jobs EXCEPT ![j].pc = "fallback"]
    /\ UNCHANGED scraper
    /\ UNCHANGED << primary, secondary, memory, files >>

\* a variant that returns an empty document when the request fails
ScrapeWithAxios_SwallowsError(j) ==
    /\ jobs[j].pc = "fallback"
    /\ IF "axios" \in jobs[j].faults
       THEN jobs' = [jobs EXCEPT ![j].via = "failed",
                                 ![j].scrapedData = Document(MinimalPage, <<>>, ValidUrl),
                                 ![j].pc = "analyze"]
       ELSE jobs' = [jobs EXCEPT ![j].via = "axios",
                                 ![j].scrapedData = Scraped(jobs[j].site, "axios"),
                                 ![j].pc = "analyze"]
    /\ UNCHANGED scraper
    /\ UNCHANGED << primary, secondary, memory, files >>

\* scrapeUrl lines 87-97: the fallback scrapeWithAxios; its error is the error
\* of scrapeUrl
ScrapeWithAxios(j) ==
    /\ jobs[j].pc = "fallback"
    /\ IF "axios" \in jobs[j].faults
       THEN jobs' = [jobs EXCEPT ![j].via = "failed", ![j].pc = "catch"]
       ELSE jobs' = [jobs EXCEPT ![j].via = "axios",
                                 ![j].scrapedData = Scraped(jobs[j].site, "axios"),
                                 ![j].pc = "analyze"]
    /\ UNCHANGED scraper
    /\ UNCHANGED << primary, secondary, memory, files >>

\* lines 231-235: await analyzer.analyzeWebpage(scrapedData, options)
AnalyzeWebpage(j) ==
    /\ jobs[j].pc = "analyze"
    /\ jobs' = [jobs EXCEPT
                  ![j].invoked = TRUE,
                  ![j].result = AloneResult(jobs[j].scrapedData,
                                            AnalysisOptions(jobs[j].options), {}),
                  ![j].pc = "complete"]
    /\ UNCHANGED scraper
    /\ UNCHANGED << primary, secondary, memory, files >>

\* lines 238-251: the update to completed, then the categories to fix
UpdateCompleted(j) ==
    /\ jobs[j].pc = "complete"
    /\ LET critical == criticalCategories(jobs[j].result.categoryScores)
       IN jobs' = [jobs EXCEPT
                     ![j].status = "completed",
                     ![j].criticalCategories = critical,
                     ![j].position = 1,
                     ![j].pc = IF Slice3(critical) = <<>> THEN "finally" ELSE "fixes"]
    /\ UNCHANGED scraper
    /\ UNCHANGED << primary, secondary, memory, files >>

\* lines 253-258: await fixGenerator.generateCategoryFixes(...)
GenerateCategoryFixes(j) ==
    /\ jobs[j].pc = "fixes"
    /\ LET category == Slice3(jobs[j].criticalCategories)[jobs[j].position]
       IN jobs' = [jobs EXCEPT
                     ![j].requested = Append(@, category),
                     ![j].fixes = generateCategoryFixes(category, jobs[j].faults),
                     ![j].pc = "save"]
    /\ UNCHANGED scraper
    /\ UNCHANGED << primary, secondary, memory, files >>

\* a variant without the try/catch around one category
SaveFixes_Propagates(j) ==
    /\ jobs[j].pc = "save"
    /\ LET rejectedInsert == jobs[j].fixes # <<>> /\ "insert" \in jobs[j].faults
           last == jobs[j].position >= Len(Slice3(jobs[j].criticalCategories))
       IN jobs' = [jobs EXCEPT
                     ![j].stored = IF rejectedInsert THEN @ ELSE @ \o jobs[j].fixes,
                     ![j].fixes = <<>>,
                     ![j].position = @ + 1,
                     ![j].pc = IF rejectedInsert THEN "catch"
                               ELSE IF last THEN "finally" ELSE "fixes"]
    /\ UNCHANGED scraper
    /\ UNCHANGED << primary, secondary, memory, files >>

\* lines 261-282: the fixes are inserted; a rejected insert is caught and
\* logged, and the loop goes on with the next category
SaveFixes(j) ==
    /\ jobs[j].pc = "save"
    /\ LET rejectedInsert == jobs[j].fixes # <<>> /\ "insert" \in jobs[j].faults
           last == jobs[j].position >= Len(Slice3(jobs[j].criticalCategories))
       IN jobs' = [jobs EXCEPT
                     ![j].stored = IF rejectedInsert THEN @ ELSE @ \o jobs[j].fixes,
                     ![j].fixes = <<>>,
                     ![j].position = @ + 1,
                     ![j].pc = IF last THEN "finally" ELSE "fixes"]
    /\ UNCHANGED scraper
    /\ UNCHANGED << primary, secondary, memory, files >>

\* lines 291-300: the catch block marks the record failed
Catch(j) ==
    /\ jobs[j].pc = "catch"
    /\ jobs' = [jobs EXCEPT ![j].status = "failed", ![j].pc = "finally"]
    /\ UNCHANGED scraper
    /\ UNCHANGED << primary, secondary, memory, files >>

\* the finally block, close() up to its await: this.browser starts to close
Close(j) ==
    /\ jobs[j].pc = "finally"
    /\ IF scraper.browser # 0
       THEN /\ scraper' = [scraper EXCEPT !.open = @ \ {scraper.browser}]
            /\ jobs' = [jobs EXCEPT ![j].pc = "closing"]
       ELSE /\ jobs' = [jobs EXCEPT ![j].pc = "end"]
            /\ UNCHANGED scraper
    /\ UNCHANGED << primary, secondary, memory, files >>

\* close() after its await: this.browser = null
Closed(j) ==
    /\ jobs[j].pc = "closing"
    /\ scraper' = [scraper EXCEPT !.browser = 0]
    /\ jobs' = [jobs EXCEPT ![j].pc = "end"]
    /\ UNCHANGED << primary, secondary, memory, files >>

(***************************************************************************)
(* The file-backed server (part_002): four collections in memory, each     *)
(* loaded from its JSON file at start and written by saveData.             *)
(***************************************************************************)
Collections == {"clients", "analyses", "generatedFixes", "llmRankings"}

CompanyNames == {"Acme", "Globex"}

EmptyMemory ==
    [clients |-> <<>>, analyses |-> <<>>, generatedFixes |-> <<>>, llmRankings |-> <<>>,
     background |-> {}]

EmptyFiles ==
    [clients |-> <<>>, analyses |-> <<>>, generatedFixes |-> <<>>, llmRankings |-> <<>>]

\* JSON.parse(JSON.stringify(data)): a Date is written as a string and read
\* back as a string
Stringify(data) ==
    [i \in 1..Len(data) |->
        [f \in DOMAIN data[i] |->
            IF f \in {"createdAt", "updatedAt"} THEN "string" ELSE data[i][f]]]

\* fs.writeFileSync(filePath, JSON.stringify(data, null, 2))
saveData(disk, collection, data) == [disk EXCEPT ![collection] = Stringify(data)]

\* array.findIndex(x => x.id === id), 0 for -1
findIndex(data, id) ==
    IF \E i \in 1..Len(data) : data[i].id = id
    THEN CHOOSE i \in 1..Len(data) : data[i].id = id
    ELSE 0

\* POST /api/clients
CreateClient(companyName) ==
    /\ Len(memory.clients) < MaxRecords
    /\ IF companyName = ""
       THEN UNCHANGED << memory, files >>
       ELSE LET client == [id |-> Len(memory.clients) + 1, companyName |-> companyName,
                           updatedAt |-> "Date"]
                clients == Append(memory.clients, client)
            IN /\ memory' = [memory EXCEPT !.clients = clients]
               /\ files' = saveData(files, "clients", clients)
    /\ UNCHANGED << primary, secondary, scraper, jobs >>

\* PUT /api/analyst/clients/:clientId
UpdateClient(clientId, companyName) ==
    /\ LET clientIndex == findIndex(memory.clients, clientId)
       IN IF clientIndex = 0
          THEN UNCHANGED memory
          ELSE memory' = [memory EXCEPT !.clients[clientIndex] =
                             [@ EXCEPT !.companyName = companyName, !.updatedAt = "Date"]]
    /\ UNCHANGED files
    /\ UNCHANGED << primary, secondary, scraper, jobs >>

\* POST /api/analysis: the record is stored, performWebsiteAnalysis is started
StartAnalysis(clientId) ==
    /\ Len(memory.analyses) < MaxRecords
    /\ LET analysisId == Len(memory.analyses) + 1
           record == [id |-> analysisId, clientId |-> clientId, status |-> "in_progress",
                      updatedAt |-> "Date"]
           all == Append(memory.analyses, record)
       IN /\ memory' = [memory EXCEPT !.analyses = all, !.background = @ \cup {analysisId}]
          /\ files' = saveData(files, "analyses", all)
    /\ UNCHANGED << primary, secondary, scraper, jobs >>

\* performWebsiteAnalysis lines 225-253, after its awaits
AnalysisCompleted(analysisId, fixCount) ==
    /\ analysisId \in memory.background
    /\ LET analysisIndex == findIndex(memory.analyses, analysisId)
           all == [memory.analyses EXCEPT ![analysisIndex] =
                      [@ EXCEPT !.status = "completed", !.updatedAt = "Date"]]
           fixes == memory.generatedFixes
                       \o [i \in 1..fixCount |->
                             [id |-> Len(memory.generatedFixes) + i,
                              analysisId |-> analysisId, createdAt |-> "Date"]]
       IN IF analysisIndex = 0
          THEN /\ memory' = [memory EXCEPT !.background = @ \ {analysisId}]
               /\ UNCHANGED files
          ELSE /\ memory' = [memory EXCEPT !.analyses = all, !.generatedFixes = fixes,
                                           !.background = @ \ {analysisId}]
               /\ files' = saveData(saveData(files, "analyses", all),
                                    "generatedFixes", fixes)
    /\ UNCHANGED << primary, secondary, scraper, jobs >>

\* performWebsiteAnalysis lines 256-270: the catch block
AnalysisFailed(analysisId) ==
    /\ analysisId \in memory.background
    /\ LET analysisIndex == findIndex(memory.analyses, analysisId)
           all == [memory.analyses EXCEPT ![analysisIndex] =
                      [@ EXCEPT !.status = "failed", !.updatedAt = "Date"]]
       IN IF analysisIndex = 0
          THEN /\ memory' = [memory EXCEPT !.background = @ \ {analysisId}]
               /\ UNCHANGED files
          ELSE /\ memory' = [memory EXCEPT !.analyses = all, !.background = @ \ {analysisId}]
               /\ files' = saveData(files, "analyses", all)
    /\ UNCHANGED << primary, secondary, scraper, jobs >>

\* POST /api/analyst/clients/:clientId/llm-test
LLMTest(clientId) ==
    /\ Len(memory.llmRankings) < MaxRecords
    /\ LET llmTest == [id |-> Len(memory.llmRankings) + 1, clientId |-> clientId,
                       timestamp |-> "string"]
           all == Append(memory.llmRankings, llmTest)
       IN /\ memory' = [memory EXCEPT !.llmRankings = all]
          /\ files' = saveData(files, "llmRankings", all)
    /\ UNCHANGED << primary, secondary, scraper, jobs >>

\* the process is started again: lines 65-68 load the four files
Restart ==
    /\ memory' = [clients |-> files.clients, analyses |-> files.analyses,
                  generatedFixes |-> files.generatedFixes,
                  llmRankings |-> files.llmRankings, background |-> {}]
    /\ UNCHANGED files
    /\ UNCHANGED << primary, secondary, scraper, jobs >>

(***************************************************************************)
(* The specification.                                                      *)
(***************************************************************************)
Init ==
    /\ analyzers = RegisteredAnalyzers
    /\ pc = "idle"
    /\ scrapedData = NoDocument
    /\ options = NoOptions
    /\ failing = {}
    /\ categoriesToAnalyze = <<>>
    /\ idx = 0
    /\ categoryScores = EmptyScores
    /\ issues = <<>>
    /\ recommendations = <<>>
    /\ invoked = <<>>
    /\ outcome = <<>>
    /\ result = NoResult
    /\ analysis = NoAnalysis
    /\ summary = NoSummary
    /\ health = NoHealth
    /\ calls = NoCalls
    /\ scraper = NoScraper
    /\ jobs = NoJobs
    /\ memory = EmptyMemory
    /\ files = EmptyFiles

\* a caller invokes analyzeWebpage on the idle analyzer
Call ==
    /\ pc = "idle"
    /\ \E data \in Documents, opts \in Options, rejecting \in FailingSets :
          analyzeWebpage(data, opts, rejecting)

Next ==
    \/ Call
    \/ AnalyzerResolved
    \/ AnalyzerRejected

Spec == Init /\ [][Next]_vars

(***************************************************************************)
(* The specification of the secondary entry points.                        *)
(***************************************************************************)
AnalyzeCall ==
    /\ OperationsIdle
    /\ \E category \in Categories, quick \in BOOLEAN :
          \E data \in AnalyzerInputs(category) : Analyze(category, data, quick)

SummaryCall ==
    /\ OperationsIdle
    /\ \E data \in SummaryDocuments, category \in SummaryCategories,
          rejecting \in FailingSets :
          getCategorySummary(data, category, rejecting)

HealthCall ==
    /\ OperationsIdle
    /\ \E rejecting \in FailingSets : getHealthStatus(rejecting)

OperationsNext ==
    \/ AnalyzeCall
    \/ SummaryCall
    \/ SummaryResolved
    \/ SummaryRejected
    \/ HealthCall
    \/ HealthResolved
    \/ HealthRejected

OperationsSpec == Init /\ [][OperationsNext]_vars

(***************************************************************************)
(* The specification of the two callers.                                   *)
(***************************************************************************)
CallerCall ==
    \E c \in Callers :
        /\ calls[c].pc = "idle"
        /\ \E data \in CallerDocuments, opts \in CallerOptions,
              rejecting \in CallerFailingSets :
                 CallerStarts(c, data, opts, rejecting)

CallersNext ==
    \/ CallerCall
    \/ \E c \in Callers : CallerResolved(c)
    \/ \E c \in Callers : CallerRejected(c)

CallersSpec == Init /\ [][CallersNext]_vars

(***************************************************************************)
(* The specification of performAnalysis for two requests.                  *)
(***************************************************************************)
PostAnalyzeCall ==
    \E j \in Jobs :
        /\ jobs[j].pc = "none"
        /\ \E site \in Sites, opts \in RequestOptions, faults \in FaultSets :
              PostAnalyze(j, site, opts, faults)

PipelineNext ==
    \/ PostAnalyzeCall
    \/ \E j \in Jobs : UpdateInProgress(j)
    \/ \E j \in Jobs : Initialize(j)
    \/ \E j \in Jobs : NewPage(j)
    \/ \E j \in Jobs : LoadPage(j)
    \/ \E j \in Jobs : ScrapeWithAxios(j)
    \/ \E j \in Jobs : AnalyzeWebpage(j)
    \/ \E j \in Jobs : UpdateCompleted(j)
    \/ \E j \in Jobs : GenerateCategoryFixes(j)
    \/ \E j \in Jobs : SaveFixes(j)
    \/ \E j \in Jobs : Catch(j)
    \/ \E j \in Jobs : Close(j)
    \/ \E j \in Jobs : Closed(j)

PipelineSpec == Init /\ [][PipelineNext]_vars

(***************************************************************************)
(* The specification of the file-backed server.                            *)
(***************************************************************************)
ClientIds == 1..MaxRecords

FileServerNext ==
    \/ \E companyName \in CompanyNames \cup {""} : CreateClient(companyName)
    \/ \E clientId \in ClientIds, companyName \in CompanyNames :
          UpdateClient(clientId, companyName)
    \/ \E clientId \in ClientIds : StartAnalysis(clientId)
    \/ \E analysisId \in 1..MaxRecords, fixCount \in 0..1 :
          AnalysisCompleted(analysisId, fixCount)
    \/ \E analysisId \in 1..MaxRecords : AnalysisFailed(analysisId)
    \/ \E clientId \in ClientIds : LLMTest(clientId)
    \/ Restart

FileServerSpec == Init /\ [][FileServerNext]_vars

(***************************************************************************)
(* Properties.                                                             *)
(***************************************************************************)
Returned == pc = "done"

\* the score the result reports for a category
ScoreOf(category) == result.categoryScores[getCategoryScoreKey(category)]

Requested == Range(categoriesToAnalyze)

\* round(sum of weight_c * score_c / sum of weight_c) over the ten categories,
\* with the weights of the weighting table
RECURSIVE WeightedMeanSum(_, _)
WeightedMeanSum(scores, i) ==
    IF i > Len(AEOCategory) THEN Num(0)
    ELSE NumAdd(NumTimes(scores[getCategoryScoreKey(AEOCategory[i])],
                         AEO_CATEGORY_CONFIG[AEOCategory[i]]),
                WeightedMeanSum(scores, i + 1))

WeightedMean(scores) == MathRoundDiv(WeightedMeanSum(scores, 1), 100)

\* C1: the overall score of every returned result is the weighted mean of its
\* ten category scores under the weighting table (15, 20, 15, 12, 10, 8, 8, 5, 4, 3).
C1_WeightedMean ==
    Returned => result.overallScore = WeightedMean(result.categoryScores)

\* C2: whatever categories were requested (all ten, a subset, none), the
\* returned categoryScores has exactly the ten fixed keys, each value in [0,100].
C2_TotalCoverage ==
    Returned =>
        /\ DOMAIN result.categoryScores = Range(CategoryScoreKeys)
        /\ Cardinality(DOMAIN result.categoryScores) = 10
        /\ \A k \in DOMAIN result.categoryScores :
              /\ NumLeq(Num(0), result.categoryScores[k])
              /\ NumLeq(result.categoryScores[k], Num(100))

\* a run that requested a strict subset and scored something
C2_Witness ==
    /\ Returned
    /\ options.categories.given
    /\ Len(categoriesToAnalyze) = 1
    /\ \E k \in DOMAIN result.categoryScores : result.categoryScores[k] # Num(0)
    /\ Cardinality(DOMAIN categoryScores) = 1

\* the score of a category in a run on the same document and options in which
\* no analyzer fails
ScoreWithoutFailure(category) ==
    IF category \in Requested
    THEN analyze(category, scrapedData, options.quick).score
    ELSE Num(0)

\* C3: when exactly one analyzer throws, its category scores 0 and the other
\* nine categories score what they score in the run without the failure.
C3_Isolation ==
    (Returned /\ Cardinality(failing) = 1 /\ "failed" \in Range(outcome)) =>
        \A c \in Categories :
            ScoreOf(c) = IF c \in failing THEN Num(0) ELSE ScoreWithoutFailure(c)

\* one analyzer threw after another category had been scored, and a later one
\* was scored after it
C3_Witness ==
    /\ Returned
    /\ Cardinality(failing) = 1
    /\ \E i, j, k \in 1..Len(outcome) :
          /\ i < j /\ j < k
          /\ outcome[i] = "completed" /\ outcome[j] = "failed" /\ outcome[k] = "completed"
          /\ ScoreOf(categoriesToAnalyze[i]) # Num(0)
          /\ ScoreOf(categoriesToAnalyze[k]) # Num(0)
          /\ ScoreWithoutFailure(categoriesToAnalyze[j]) # Num(0)

\* the items of a sequence that carry a category
TaggedWith(items, category) == Filter(items, LAMBDA x : x.category = category)

\* C4: a category whose processing failed has no issue and no recommendation
\* in the returned result.
C4_FailedCategoryEmpty ==
    Returned =>
        \A i \in 1..Len(outcome) :
            outcome[i] = "failed" =>
                /\ TaggedWith(result.issues, categoriesToAnalyze[i]) = <<>>
                /\ TaggedWith(result.recommendations, categoriesToAnalyze[i]) = <<>>

\* an analyzer that has issues and recommendations to report for this document
\* threw, while other categories did contribute theirs
C4_Witness ==
    /\ Returned
    /\ \E i \in 1..Len(outcome) :
          /\ outcome[i] = "failed"
          /\ analyze(categoriesToAnalyze[i], scrapedData, options.quick).issues # <<>>
          /\ analyze(categoriesToAnalyze[i], scrapedData, options.quick).recommendations # <<>>
    /\ result.issues # <<>>
    /\ result.recommendations # <<>>

\* C5: whatever analyzers throw, a call on a valid document never rejects:
\* while it waits, it waits for the analyzer of a requested category, and what
\* it returns is a result with status 'completed' in which every requested
\* category was processed.
C5_AlwaysCompletes ==
    scrapedData.url = ValidUrl =>
        /\ pc \in {"awaiting", "done"}
        /\ pc = "awaiting" => /\ idx \in 1..Len(categoriesToAnalyze)
                              /\ categoriesToAnalyze[idx] \in analyzers
                              /\ Len(outcome) = idx - 1
        /\ Returned => /\ result.status = "completed"
                       /\ Len(outcome) = Len(categoriesToAnalyze)

\* all ten analyzers threw and the call returned
C5_Witness ==
    /\ Returned
    /\ scrapedData.url = ValidUrl
    /\ failing = Categories
    /\ Len(outcome) = 10
    /\ \A i \in 1..Len(outcome) : outcome[i] = "failed"
    /\ result.status = "completed"

\* C6: a call with a document whose url is missing or empty fails before any
\* analyzer is invoked and returns no result.
C6_InvalidDocumentFailsFast ==
    (pc # "idle" /\ scrapedData.url = "") =>
        /\ pc = "rejected"
        /\ invoked = <<>>
        /\ result = NoResult

\* critical before high before medium before low
SeverityRank(severity) ==
    CHOOSE r \in 1..4 : <<"critical", "high", "medium", "low">>[r] = severity

\* C7: the returned issues are in severity order, critical first, and issues of
\* equal severity are in the order in which they were collected.
C7_IssuesSortedStable ==
    Returned =>
        /\ \A i, j \in 1..Len(result.issues) :
              i < j => SeverityRank(result.issues[i].severity)
                          <= SeverityRank(result.issues[j].severity)
        /\ \A sev \in Severity :
              Filter(result.issues, LAMBDA x : x.severity = sev)
                  = Filter(issues, LAMBDA x : x.severity = sev)

\* the sort had work to do: a less severe issue was collected before a more
\* severe one, and two different issues of one severity came from two categories
C7_Witness ==
    /\ Returned
    /\ \E i, j \in 1..Len(issues) :
          i < j /\ SeverityRank(issues[i].severity) > SeverityRank(issues[j].severity)
    /\ \E i, j \in 1..Len(issues) :
          /\ i < j
          /\ issues[i].severity = issues[j].severity
          /\ issues[i].category # issues[j].category
          /\ issues[i].title # issues[j].title

\* C8: the returned recommendations are in non-decreasing order of priority, and
\* recommendations of equal priority are in the order in which they were collected.
C8_RecommendationsSortedStable ==
    Returned =>
        /\ \A i, j \in 1..Len(result.recommendations) :
              i < j => result.recommendations[i].priority <= result.recommendations[j].priority
        /\ \A p \in {recommendations[i].priority : i \in 1..Len(recommendations)} :
              Filter(result.recommendations, LAMBDA x : x.priority = p)
                  = Filter(recommendations, LAMBDA x : x.priority = p)
        /\ Len(result.recommendations) = Len(recommendations)

\* a recommendation of lower priority number was collected after one of a higher
\* number, and two different recommendations share a priority
C8_Witness ==
    /\ Returned
    /\ \E i, j \in 1..Len(recommendations) :
          i < j /\ recommendations[i].priority > recommendations[j].priority
    /\ \E i, j \in 1..Len(recommendations) :
          /\ i < j
          /\ recommendations[i].priority = recommendations[j].priority
          /\ recommendations[i].title # recommendations[j].title

\* how often x occurs in s
Count(s, x) == Cardinality({i \in 1..Len(s) : s[i] = x})

SameItems(s, t) ==
    /\ Len(s) = Len(t)
    /\ \A x \in Range(s) \cup Range(t) : Count(s, x) = Count(t, x)

\* what the analyzers of the successfully processed requested categories
\* returned, from position i on, each item with its category
RECURSIVE IssuesOfCompleted(_)
IssuesOfCompleted(i) ==
    IF i > Len(categoriesToAnalyze) THEN <<>>
    ELSE LET c == categoriesToAnalyze[i]
             own == IF c \in analyzers /\ c \notin failing
                    THEN analyze(c, scrapedData, options.quick).issues ELSE <<>>
         IN [k \in 1..Len(own) |-> [severity |-> own[k].severity, title |-> own[k].title,
                                     category |-> c]]
            \o IssuesOfCompleted(i + 1)

RECURSIVE RecommendationsOfCompleted(_)
RecommendationsOfCompleted(i) ==
    IF i > Len(categoriesToAnalyze) THEN <<>>
    ELSE LET c == categoriesToAnalyze[i]
             own == IF c \in analyzers /\ c \notin failing
                    THEN analyze(c, scrapedData, options.quick).recommendations ELSE <<>>
         IN [k \in 1..Len(own) |-> [priority |-> own[k].priority, title |-> own[k].title,
                                     category |-> c]]
            \o RecommendationsOfCompleted(i + 1)

\* C9: the returned issues are exactly the issues returned by the analyzers of
\* the successfully processed requested categories, each with its category; the
\* recommendations likewise when includeRecommendations is true, and none when
\* it is false or absent.
C9_CollectedExactly ==
    Returned =>
        /\ SameItems(result.issues, IssuesOfCompleted(1))
        /\ IF options.includeRecommendations = "true"
           THEN SameItems(result.recommendations, RecommendationsOfCompleted(1))
           ELSE result.recommendations = <<>>

\* recommendations were asked for and came from two categories, while a third
\* category failed
C9_Witness ==
    /\ Returned
    /\ options.includeRecommendations = "true"
    /\ "failed" \in Range(outcome)
    /\ \E i, j \in 1..Len(result.recommendations) :
          result.recommendations[i].category # result.recommendations[j].category
    /\ \E i, j \in 1..Len(result.issues) :
          result.issues[i].category # result.issues[j].category

\* C10: a requested category that has no analyzer is skipped: its analyzer is
\* never invoked, nothing is stored or collected for it, every other requested
\* category is still processed and the call returns a completed result, in
\* which any of the ten keys that was not scored holds 0.
C10_MissingAnalyzerSkipped ==
    /\ \A i \in 1..Len(outcome) :
          categoriesToAnalyze[i] \notin analyzers <=> outcome[i] = "skipped"
    /\ Returned =>
          /\ Len(outcome) = Len(categoriesToAnalyze)
          /\ result.status = "completed"
          /\ \A i \in 1..Len(outcome) :
                outcome[i] = "skipped" =>
                    /\ categoriesToAnalyze[i] \notin Range(invoked)
                    /\ getCategoryScoreKey(categoriesToAnalyze[i]) \notin DOMAIN categoryScores
                    /\ TaggedWith(result.issues, categoriesToAnalyze[i]) = <<>>
                    /\ TaggedWith(result.recommendations, categoriesToAnalyze[i]) = <<>>
          /\ \A k \in Range(CategoryScoreKeys) \ DOMAIN categoryScores :
                result.categoryScores[k] = Num(0)

\* a category without an analyzer was requested first, and the category after
\* it was analyzed and scored
C10_Witness ==
    /\ Returned
    /\ \E i, j \in 1..Len(outcome) :
          /\ i < j
          /\ outcome[i] = "skipped"
          /\ outcome[j] = "completed"
          /\ ScoreOf(categoriesToAnalyze[j]) # Num(0)
          /\ TaggedWith(result.issues, categoriesToAnalyze[j]) # <<>>


\* every position of categoriesToAnalyze has been processed: skipped for want
\* of an analyzer, or its analyzer returned or threw
AllProcessed ==
    /\ Len(outcome) = Len(categoriesToAnalyze)
    /\ \A i \in 1..Len(categoriesToAnalyze) :
          outcome[i] = IF categoriesToAnalyze[i] \in analyzers
                       THEN (IF categoriesToAnalyze[i] \in failing THEN "failed"
                             ELSE "completed")
                       ELSE "skipped"

\* C18: within a call the overall score is computed only once every requested
\* category has been processed (its analyzer returned or threw), from the
\* scores as they then are; no category score changes afterwards.
C18_OverallAfterAll ==
    [][/\ pc' = "awaiting" => result' = NoResult
       /\ result' # result =>
             /\ result = NoResult
             /\ pc' = "done"
             /\ AllProcessed'
             /\ result'.categoryScores = fillMissingScores(categoryScores')
             /\ result'.overallScore = calculateOverallScore(result'.categoryScores)
       /\ result # NoResult => /\ categoryScores' = categoryScores
                               /\ result' = result]_vars

\* a returned call in which an earlier analyzer threw and a later one returned
C18_Witness ==
    /\ Returned
    /\ Len(categoriesToAnalyze) = 10
    /\ outcome[1] = "failed"
    /\ outcome[10] = "completed"
    /\ result.overallScore > 0

\* C19: from the call on, the document that analyzeWebpage, getCategorySummary
\* or an analyzer was given keeps the value it had when it was passed.
C19_DocumentUnchanged ==
    [][/\ pc # "idle" => scrapedData' = scrapedData
       /\ summary.pc # "idle" => summary'.data = summary.data
       /\ analysis.pc # "idle" => analysis'.data = analysis.data
       /\ \A c \in Callers :
             calls[c].pc # "idle" => calls'[c].scrapedData = calls[c].scrapedData]_vars

\* all ten analyzers have read a document that has headings, tags and schemas
C19_Witness ==
    /\ Returned
    /\ Len(invoked) = 10
    /\ failing = {}
    /\ scrapedData.schemas = << FAQBlock, ArticleBlock >>
    /\ scrapedData.headings # <<>>
    /\ scrapedData.metaTags # <<>>

(***************************************************************************)
(* Properties of the two callers.                                          *)
(***************************************************************************)
Completed(c) == calls[c].pc = "done"

\* both calls were given the same document and the same analyzers failed
SameDocument(c, d) ==
    /\ calls[c].scrapedData = calls[d].scrapedData
    /\ calls[c].failing = calls[d].failing

Unrequested(c) == Categories \ Range(calls[c].categoriesToAnalyze)

\* C12: a call for a subset of the categories gives score 0 to every category it
\* did not request, and its overallScore is never above the overallScore of the
\* call for all categories on the same document.
C12_SubsetBelowFull ==
    \A c \in Callers, d \in Callers :
        (/\ Completed(c)
         /\ Completed(d)
         /\ SameDocument(c, d)
         /\ calls[c].options.categories.given
         /\ ~calls[d].options.categories.given)
        => /\ \A k \in Unrequested(c) :
                 calls[c].result.categoryScores[getCategoryScoreKey(k)] = Num(0)
           /\ calls[c].result.overallScore =
                 calculateOverallScore(
                    [k \in Range(CategoryScoreKeys) |->
                        IF k \in {getCategoryScoreKey(r) : r \in Unrequested(c)}
                        THEN Num(0)
                        ELSE calls[c].result.categoryScores[k]])
           /\ calls[c].result.overallScore <= calls[d].result.overallScore

\* a subset call that scored something and a full call on the same document
C12_Witness ==
    /\ Completed(1)
    /\ Completed(2)
    /\ SameDocument(1, 2)
    /\ calls[1].options.categories.given
    /\ Len(calls[1].categoriesToAnalyze) > 0
    /\ ~calls[2].options.categories.given
    /\ calls[1].result.overallScore > 0
    /\ calls[1].result.overallScore < calls[2].result.overallScore

\* C17: each of two analyzeWebpage calls in flight at the same time on one
\* analyzer, their awaits interleaved in any order, returns exactly the result
\* it returns when it runs alone.
C17_CallsIsolated ==
    \A c \in Callers :
        Completed(c) =>
            calls[c].result =
                AloneResult(calls[c].scrapedData, calls[c].options, calls[c].failing)

\* two completed calls on different documents, each of which took a step while
\* the other was at an await
C17_Witness ==
    /\ Completed(1)
    /\ Completed(2)
    /\ calls[1].overlapped
    /\ calls[2].overlapped
    /\ calls[1].scrapedData # calls[2].scrapedData
    /\ calls[1].result.categoryScores # calls[2].result.categoryScores
    /\ calls[1].result.issues # calls[2].result.issues

\* the number of positions of list that hold x
Occurrences(list, x) == Cardinality({i \in 1..Len(list) : list[i] = x})

IsPermutation(a, b) ==
    /\ Len(a) = Len(b)
    /\ \A x \in Range(a) \cup Range(b) : Occurrences(a, x) = Occurrences(b, x)

\* C20: two calls on the same document whose options.categories are
\* permutations of each other return the same categoryScores and overallScore.
C20_OrderIndependent ==
    \A c \in Callers, d \in Callers :
        (/\ Completed(c)
         /\ Completed(d)
         /\ SameDocument(c, d)
         /\ calls[c].options.quick = calls[d].options.quick
         /\ calls[c].options.categories.given
         /\ calls[d].options.categories.given
         /\ IsPermutation(calls[c].options.categories.list, calls[d].options.categories.list))
        => /\ calls[c].result.categoryScores = calls[d].result.categoryScores
           /\ calls[c].result.overallScore = calls[d].result.overallScore

\* two completed calls for the same two categories in opposite orders, the
\* analyzer of one of them failing
C20_Witness ==
    /\ Completed(1)
    /\ Completed(2)
    /\ SameDocument(1, 2)
    /\ calls[1].options.categories.list = << "meta_tags", "faq_schema" >>
    /\ calls[2].options.categories.list = << "faq_schema", "meta_tags" >>
    /\ calls[1].failing = {"meta_tags"}
    /\ calls[1].result.categoryScores["faqSchema"] # Num(0)

(***************************************************************************)
(* Properties of the secondary entry points.                               *)
(***************************************************************************)
\* a < b for two numbers
NumLess(a, b) == ~NumLeq(b, a)

\* C13: getCategorySummary calls exactly one analyzer, the one registered for
\* the category, and returns its score with the severity low for a score of
\* 80 or more, medium from 60, high from 40 and critical below 40.
C13_SummarySeverity ==
    /\ Len(summary.invoked) <= 1
    /\ summary.pc = "done" =>
          LET score == summary.result.score
              severity == summary.result.severity
          IN /\ summary.category \in analyzers
             /\ summary.invoked = << summary.category >>
             /\ score = analyze(summary.category, summary.data, FALSE).score
             /\ NumLeq(Num(80), score) => severity = "low"
             /\ (NumLeq(Num(60), score) /\ NumLess(score, Num(80))) => severity = "medium"
             /\ (NumLeq(Num(40), score) /\ NumLess(score, Num(60))) => severity = "high"
             /\ NumLess(score, Num(40)) => severity = "critical"

\* a summary of the structured-data category whose score is not an integer and
\* lies in the medium band
C13_Witness ==
    /\ summary.pc = "done"
    /\ summary.category = "schema_markup"
    /\ ~IsInteger(summary.result.score)
    /\ summary.result.severity = "medium"

\* C14: getHealthStatus calls each of the ten registered analyzers once on the
\* test document and returns, for each of the ten categories, true if the
\* analyzer returned and false if it threw; a throw never ends the check.
C14_HealthStatus ==
    /\ health.pc # "rejected"
    /\ health.pc = "awaiting" => /\ health.data = testData
                                 /\ health.quick
    /\ health.returned =>
          /\ health.invoked = AEOCategory
          /\ DOMAIN health.status = Categories
          /\ Cardinality(DOMAIN health.status) = 10
          /\ \A c \in Categories : health.status[c] = (c \notin health.failing)

\* a returned status in which the first analyzer threw and the last one returned
C14_Witness ==
    /\ health.returned
    /\ health.status["faq_schema"] = FALSE
    /\ health.status["technical_seo"] = TRUE

\* C15: whatever the document and the quick flag, the score an analyzer
\* returns is at least 0 and at most 100.
C15_ScoreBounds ==
    analysis.pc = "done" =>
        /\ NumLeq(Num(0), analysis.result.score)
        /\ NumLeq(analysis.result.score, Num(100))

\* an analyzer whose score before the cap is above 100 returned 100
C15_Witness ==
    /\ analysis.pc = "done"
    /\ analysis.category = "faq_schema"
    /\ analysis.quick
    /\ analysis.data.schemas = << LongFAQBlock >>
    /\ analysis.result.score = Num(100)

\* C16: every score an analyzer returns is an integer.
C16_IntegerScores ==
    analysis.pc = "done" => IsInteger(analysis.result.score)

(***************************************************************************)
(* Properties of single analyzers.                                         *)
(***************************************************************************)
\* the analyzer of category has been called directly and has returned
Analyzed(category) == analysis.pc = "done" /\ analysis.category = category

IssueTitles(res) == {res.issues[i].title : i \in 1..Len(res.issues)}

LevelOneCount(headings) == Cardinality({i \in 1..Len(headings) : headings[i].level = 1})

SkipsLevel(headings) ==
    \E i \in 2..Len(headings) : headings[i].level - headings[i - 1].level > 1

\* C24 as stated: a heading sequence is invalid exactly when it is empty, has
\* more than one level-1 heading or skips a level, and the content-structure
\* analyzer reports the heading-structure issue exactly then.
C24_HeadingsInvalidExactly ==
    Analyzed("content_structure") =>
        LET headings == analysis.data.headings
            invalid == \/ Len(headings) = 0
                       \/ LevelOneCount(headings) > 1
                       \/ SkipsLevel(headings)
        IN /\ validateHeadingStructure(headings) = ~invalid
           /\ ("Poor Heading Structure" \in IssueTitles(analysis.result)) = invalid

\* C24 amended: a heading sequence is invalid exactly when it is empty, has no
\* level-1 heading, has more than one level-1 heading or skips a level; the
\* content-structure analyzer reports the heading-structure issue exactly
\* then, so [H1,H3] is invalid and [H1,H2,H2,H3] is valid.
C24_HeadingsInvalidOrNoH1 ==
    /\ ~validateHeadingStructure(<< Heading(1), Heading(3) >>)
    /\ validateHeadingStructure(<< Heading(1), Heading(2), Heading(2), Heading(3) >>)
    /\ Analyzed("content_structure") =>
          LET headings == analysis.data.headings
              invalid == \/ Len(headings) = 0
                         \/ LevelOneCount(headings) = 0
                         \/ LevelOneCount(headings) > 1
                         \/ SkipsLevel(headings)
          IN /\ validateHeadingStructure(headings) = ~invalid
             /\ ("Poor Heading Structure" \in IssueTitles(analysis.result)) = invalid

\* the content-structure analyzer has reported a sequence without level-1
\* heading and without skipped level as invalid
C24_Witness ==
    /\ Analyzed("content_structure")
    /\ analysis.data.headings = << Heading(2) >>
    /\ "Poor Heading Structure" \in IssueTitles(analysis.result)

\* C25: for a document without structured-data blocks the FAQ analyzer
\* returns score 0 and exactly one issue, of severity critical, that reports
\* the missing FAQ schema.
C25_MissingFAQCritical ==
    (Analyzed("faq_schema") /\ analysis.data.schemas = <<>>) =>
        /\ analysis.result.score = Num(0)
        /\ Len(analysis.result.issues) = 1
        /\ analysis.result.issues[1].title = "Missing FAQ Schema"
        /\ analysis.result.issues[1].severity = "critical"

\* the title took the good-length branch: it is reported neither as missing
\* nor as too short nor as too long
TitleGoodLength(res) ==
    IssueTitles(res) \cap {"Missing Title Tag", "Title Too Short", "Title Too Long"} = {}

DescriptionGoodLength(res) ==
    IssueTitles(res) \cap {"Missing Meta Description", "Meta Description Too Short",
                           "Meta Description Too Long"} = {}

\* C26 as stated: the meta-tags analyzer takes the good-length branch for the
\* title exactly when 30 <= L <= 60 and for the description exactly when
\* 120 <= L <= 160.
C26_GoodLengthExactly ==
    Analyzed("meta_tags") =>
        LET title == analysis.data.title
            description == analysis.data.metaDescription
        IN /\ TitleGoodLength(analysis.result)
                  = (30 <= title.length /\ title.length <= 60)
           /\ DescriptionGoodLength(analysis.result)
                  = (120 <= description.length /\ description.length <= 160)

\* C26 amended: for a title with a non-whitespace character the good-length
\* branch is taken exactly when 30 <= L <= 60, for a description with a
\* non-whitespace character exactly when 120 <= L <= 160; a whitespace-only
\* title or description takes the missing branch at every length.
C26_GoodLengthUnlessBlank ==
    Analyzed("meta_tags") =>
        LET title == analysis.data.title
            description == analysis.data.metaDescription
        IN /\ TitleGoodLength(analysis.result)
                  = (~title.blank /\ 30 <= title.length /\ title.length <= 60)
           /\ DescriptionGoodLength(analysis.result)
                  = (~description.blank /\ 120 <= description.length
                                        /\ description.length <= 160)
           /\ title.blank => "Missing Title Tag" \in IssueTitles(analysis.result)
           /\ description.blank =>
                  "Missing Meta Description" \in IssueTitles(analysis.result)

\* a title at the lower edge and a 155-character description have both taken
\* the good-length branch
C26_Witness ==
    /\ Analyzed("meta_tags")
    /\ analysis.data.title.length = 30 /\ ~analysis.data.title.blank
    /\ analysis.data.metaDescription.length = 155
    /\ TitleGoodLength(analysis.result)
    /\ DescriptionGoodLength(analysis.result)

\* the sequence s without its last element
Front(s) == SubSeq(s, 1, Len(s) - 1)

\* C27: for a document that has at least one valid schema block, adding one
\* more valid schema block gives a structured-data score strictly higher than
\* the score before the block was added.
C27_MoreSchemasScoreHigher ==
    Analyzed("schema_markup") =>
        LET schemas == analysis.data.schemas
            before == [analysis.data EXCEPT !.schemas = Front(schemas)]
        IN (/\ Len(schemas) >= 2
            /\ schemas[Len(schemas)].isValid
            /\ \E i \in 1..(Len(schemas) - 1) : schemas[i].isValid)
           => NumLess(SchemaMarkupAnalyzer(before, analysis.quick).score,
                      analysis.result.score)

\* every element occurs in b at least as often as in a
SubBag(a, b) == \A x \in Range(a) : Occurrences(a, x) <= Occurrences(b, x)

\* what the call that has returned returns with the other value of quick
OtherMode == AloneResult(scrapedData, [options EXCEPT !.quick = ~options.quick], failing)

\* C28: analyzeWebpage with quick=true returns the same ten category scores
\* and the same overallScore as with quick=false on the same document; the
\* quick result's issues and recommendations are among those of the full one.
C28_QuickKeepsScores ==
    Returned =>
        LET fast == IF options.quick THEN result ELSE OtherMode
            full == IF options.quick THEN OtherMode ELSE result
        IN /\ fast.categoryScores = full.categoryScores
           /\ fast.overallScore = full.overallScore
           /\ SubBag(fast.issues, full.issues)
           /\ SubBag(fast.recommendations, full.recommendations)

\* a quick call over all ten categories has returned fewer recommendations
\* than the full call returns
C28_Witness ==
    /\ Returned
    /\ options.quick
    /\ ~options.categories.given
    /\ failing = {}
    /\ Len(result.recommendations) < Len(OtherMode.recommendations)
    /\ result.categoryScores = OtherMode.categoryScores

(***************************************************************************)
(* Properties of performAnalysis and of the file-backed server.            *)
(***************************************************************************)
\* performAnalysis of request j is past its fix loop
FixesDispatched(j) ==
    jobs[j].status = "completed" /\ jobs[j].pc \in {"finally", "closing", "end"}

\* C21: once an analysis has completed and its fixes are dispatched, fix
\* generation has been requested for every category whose score in the result
\* is below 60 and for no category whose score is 60 or more.
C21_FixesForEveryLowScore ==
    \A j \in Jobs :
        FixesDispatched(j) =>
            Range(jobs[j].requested)
                = {k \in Range(CategoryScoreKeys) :
                     NumLess(jobs[j].result.categoryScores[k], Num(60))}

\* C22: an analysis whose scrape failed, the fallback included, never has
\* analyzeWebpage invoked, has no fix requested or stored, is never marked
\* completed, and is failed once its catch block has run.
C22_ScrapeFailureFails ==
    \A j \in Jobs :
        jobs[j].via = "failed" =>
            /\ ~jobs[j].invoked
            /\ jobs[j].result = NoResult
            /\ jobs[j].requested = <<>>
            /\ jobs[j].stored = <<>>
            /\ jobs[j].status \in {"in_progress", "failed"}
            /\ jobs[j].pc \in {"finally", "closing", "end"} => jobs[j].status = "failed"

\* an analysis whose page load and fallback request both failed has ended
C22_Witness ==
    \E j \in Jobs :
        /\ jobs[j].via = "failed"
        /\ jobs[j].pc = "end"
        /\ jobs[j].status = "failed"

AloneVia(faults) ==
    IF "page" \notin faults THEN "puppeteer"
    ELSE IF "axios" \notin faults THEN "axios" ELSE "failed"

\* C30: the browser in which an analysis is loading its page is running, and
\* the scrape of each analysis ends as it ends when the analysis runs alone.
C30_ScrapeUndisturbed ==
    \A j \in Jobs :
        /\ jobs[j].pc = "page" => jobs[j].browser \in scraper.open
        /\ jobs[j].via # "none" => jobs[j].via = AloneVia(jobs[j].faults)

\* C23: each JSON file holds the data of its collection in memory.
C23_FilesHoldMemory ==
    \A collection \in Collections : files[collection] = Stringify(memory[collection])

=============================================================================
